---- MODULE Spec2Model ----
(***************************************************************************)
(* A model of the ethereumjs execution stack: the Common parameter         *)
(* resolver (hardfork / EIP state and its hardforkChanged signal), the     *)
(* EVM's precompile and opcode tables, and the EVM message execution       *)
(* (runCall, _executeCall, _executeCreate, runInterpreter) over a          *)
(* journaled state and a transient storage.                                *)
(***************************************************************************)
EXTENDS Integers, Sequences, FiniteSets, TLC

VARIABLES
    schedule,           \* Common._chainParams.hardforks
    hardfork,           \* Common._hardfork
    eips,               \* Common._eips
    customPrecompiles,  \* EVM._customPrecompiles
    customOpcodes,      \* EVM._customOpcodes
    allowUnlimitedInitCodeSize, \* EVM.allowUnlimitedInitCodeSize
    evmPrecompiles,     \* EVM._precompiles
    evmOpcodes,         \* EVM._opcodes
    world,              \* the state behind EVM.journal: accounts, slots, warm marks
    journal,            \* EVM.journal: the stack of open checkpoints
    tstore,             \* EVM.transientStorage
    tjournal,           \* the checkpoints of EVM.transientStorage
    frames,             \* the messages the interpreter is running, outermost first
    phase,              \* idle, running, done (runCall returned), thrown
    steps,              \* interpreter steps taken
    lastCall,           \* what the runCall that has just returned did
    shadow,             \* the state with every write applied and none undone
    undone,             \* some checkpoint of the run was reverted
    answer,             \* the last call made on the Common and what it returned
    forkHashes,         \* the forkHash fields of the schedule's entries, by name
    copied,             \* the Common that copy() returned: its own fields
    pending,            \* the payload a PendingBlock is assembling
    pendingBlock        \* a PendingBlock with its pool and its pendingPayloads

commonVars == <<schedule, hardfork, eips>>
tableVars == <<customPrecompiles, customOpcodes, evmPrecompiles, evmOpcodes,
               allowUnlimitedInitCodeSize>>
machineVars == <<world, journal, tstore, tjournal, frames, phase, steps, lastCall,
                 shadow, undone>>
auxVars == <<answer, forkHashes, copied, pending, pendingBlock>>

----------------------------------------------------------------------------
(* Bounds of the model *)

\* longest list given to setEIPs
MaxEips == 1
\* longest customPrecompiles list given to the EVM constructor
MaxCustom == 2

----------------------------------------------------------------------------
(* Common: hardfork schedule *)

\* JSON null and JavaScript undefined of an optional schedule field
Null == 0 - 1
Undef == 0 - 2

HF(name, block, timestamp, ttd) ==
    [name |-> name, block |-> block, timestamp |-> timestamp, ttd |-> ttd]

\* a schedule in the manner of chains/mainnet.json: block hardforks, the merge
\* by total difficulty, then timestamp hardforks
MainnetLike ==
    << HF("chainstart", 0, Undef, Undef),
       HF("homestead", 1, Undef, Undef),
       HF("spuriousDragon", 2, Undef, Undef),
       HF("byzantium", 3, Undef, Undef),
       HF("istanbul", 4, Undef, Undef),
       HF("london", 5, Undef, Undef),
       HF("paris", Null, Undef, 10),
       HF("shanghai", Null, 20, Undef),
       HF("cancun", Null, 30, Undef) >>

\* the custom schedule of the client tests: chainstart@0, berlin@2, london@3
GoerliLike ==
    << HF("chainstart", 0, Undef, Undef),
       HF("berlin", 2, Undef, Undef),
       HF("london", 3, Undef, Undef) >>

Schedules == {MainnetLike, GoerliLike}

Range(s) == {s[i] : i \in DOMAIN s}

\* hardforks/index.js: the EIPs a hardfork file lists, in the file's order;
\* a hardfork file without an eips entry inlines its parameters
HardforkEIPList(name) ==
    CASE name = "berlin" -> <<2565, 2929, 2718, 2930>>
      [] name = "london" -> <<1559, 3198, 3529, 3541>>
      [] name = "arrowGlacier" -> <<4345>>
      [] name = "grayGlacier" -> <<5133>>
      [] name = "paris" -> <<3675, 4399>>
      [] name = "shanghai" -> <<3651, 3855, 3860, 4895>>
      [] name = "cancun" -> <<1153, 4844, 5656, 6780>>
      [] OTHER -> <<>>

HardforkEIPs(name) == Range(HardforkEIPList(name))

\* 'eips' in the hardfork file
ReferencesEIPs(name) ==
    name \in {"berlin", "london", "arrowGlacier", "grayGlacier", "paris",
              "shanghai", "cancun"}

\* eips/index.js: minimumHardfork and requiredEIPs of the EIPs a user can pass
KnownEIPs == {1153, 2537, 3540, 3541, 3554, 3670, 4345, 4844, 5133}

EIPMinimumHardfork(eip) ==
    CASE eip = 1153 -> "chainstart"
      [] eip = 2537 -> "chainstart"
      [] eip = 3540 -> "london"
      [] eip = 3541 -> "berlin"
      [] eip = 3554 -> "muirGlacier"
      [] eip = 3670 -> "london"
      [] eip = 4345 -> "london"
      [] eip = 4844 -> "paris"
      [] eip = 5133 -> "grayGlacier"

EIPRequired(eip) ==
    CASE eip = 3540 -> {3541}
      [] eip = 3670 -> {3540}
      [] eip = 4844 -> {1559, 2718, 2930, 4895}
      [] OTHER -> {}

\* position of the last schedule entry with this name, 0 when there is none
RECURSIVE PosFrom(_, _, _)
PosFrom(hfs, name, i) ==
    IF i = 0 THEN 0
    ELSE IF hfs[i].name = name THEN i ELSE PosFrom(hfs, name, i - 1)

PosOf(hfs, name) == PosFrom(hfs, name, Len(hfs))

HardforkGteHardfork(hfs, hardfork1, hardfork2) ==
    LET posHf2 == PosOf(hfs, hardfork2)
    IN  posHf2 # 0 /\ PosOf(hfs, hardfork1) >= posHf2

GteHardfork(hfs, hf, hardfork2) == HardforkGteHardfork(hfs, hf, hardfork2)

IsActivatedEIP(hfs, hf, es, eip) ==
    \/ eip \in Range(es)
    \/ \E i \in DOMAIN hfs :
          /\ eip \in HardforkEIPs(hfs[i].name)
          /\ GteHardfork(hfs, hf, hfs[i].name)

----------------------------------------------------------------------------
(* Common.getHardforkBy: indices are those of the code (0-based), s[i + 1]  *)
(* is the code's s[i]                                                       *)

\* Array.prototype.findIndex: the first 0-based index whose element
\* satisfies P, or -1
FindIndex(s, P(_)) ==
    LET hits == {i \in DOMAIN s : P(s[i])}
    IN  IF hits = {} THEN 0 - 1
        ELSE (CHOOSE i \in hits : \A j \in hits : i <= j) - 1

\* Array.prototype.slice(from, to) and reverse()
Slice(s, from, to) ==
    IF to <= from THEN <<>> ELSE [i \in 1..(to - from) |-> s[from + i]]

Reverse(s) == [i \in 1..Len(s) |-> s[Len(s) + 1 - i]]

HasTTD(hf) == hf.ttd # Null /\ hf.ttd # Undef

Applied(hf) == hf.block # Null \/ HasTTD(hf) \/ hf.timestamp # Undef

Thrown(msg) == [ok |-> FALSE, name |-> msg]
Returned(name) == [ok |-> TRUE, name |-> name]

\* lines 379-411: the tie-break loop, the timestamp consistency checks, the result
HardforkByTail(hfs, hfStart, timestamp) ==
    LET last == Len(hfs) - 1
        sameAsNext(i) == /\ hfs[i + 1].block = hfs[i + 2].block
                         /\ hfs[i + 1].timestamp = hfs[i + 2].timestamp
        stops == {i \in hfStart..last : i = last \/ ~sameAsNext(i)}
        hfIndex == CHOOSE i \in stops : \A j \in stops : i <= j
        before == Slice(hfs, 0, hfStart)
        after == Slice(hfs, hfIndex + 1, Len(hfs))
        tsOr(hf, d) == IF hf.timestamp = Undef \/ hf.timestamp = Null THEN d ELSE hf.timestamp
        minTimeStamp == IF before = <<>> THEN 0
                        ELSE CHOOSE m \in {0} \cup {tsOr(before[i], 0) : i \in DOMAIN before} :
                               \A i \in DOMAIN before : tsOr(before[i], 0) <= m /\ 0 <= m
        maxTimeStamp == IF after = <<>> THEN timestamp
                        ELSE CHOOSE m \in {timestamp} \cup {tsOr(after[i], timestamp) : i \in DOMAIN after} :
                               \A i \in DOMAIN after : m <= tsOr(after[i], timestamp) /\ m <= timestamp
    IN  IF hfStart < 0 \/ hfStart > last
        THEN Thrown("TypeError")
        ELSE IF timestamp # Undef /\ minTimeStamp > timestamp
        THEN Thrown("Maximum HF determined by timestamp is lower than the block number/ttd HF")
        ELSE IF timestamp # Undef /\ maxTimeStamp < timestamp
        THEN Thrown("Maximum HF determined by block number/ttd is lower than timestamp HF")
        ELSE Returned(hfs[hfIndex + 1].name)

\* a merge decision that takes the merge hardfork only when td exceeds the TTD
HardforkByMergeAboveTTD(hfs, mergeIndex, candidate, timestamp, td) ==
    LET hfIndex == candidate - 1
    IN  IF hfIndex < 0 \/ hfIndex > Len(hfs) - 1
        THEN Thrown("TypeError")
        ELSE IF hfs[hfIndex + 1].block = Null /\ hfs[hfIndex + 1].timestamp = Undef
        THEN IF td = Undef \/ hfs[hfIndex + 1].ttd >= td
             THEN HardforkByTail(hfs, hfIndex - 1, timestamp)
             ELSE HardforkByTail(hfs, hfIndex, timestamp)
        ELSE IF mergeIndex >= 0 /\ td # Undef
                /\ hfIndex >= mergeIndex /\ hfs[mergeIndex + 1].ttd >= td
        THEN Thrown("Maximum HF determined by total difficulty is lower than the block number HF")
        ELSE IF mergeIndex >= 0 /\ td # Undef
                /\ hfIndex < mergeIndex /\ hfs[mergeIndex + 1].ttd < td
        THEN Thrown("HF determined by block number is lower than the minimum total difficulty HF")
        ELSE HardforkByTail(hfs, hfIndex, timestamp)

\* a merge decision that falls back to the first hardfork of the schedule
HardforkByMergeToFirst(hfs, mergeIndex, candidate, timestamp, td) ==
    LET hfIndex == candidate - 1
    IN  IF hfIndex < 0 \/ hfIndex > Len(hfs) - 1
        THEN Thrown("TypeError")
        ELSE IF hfs[hfIndex + 1].block = Null /\ hfs[hfIndex + 1].timestamp = Undef
        THEN IF td = Undef \/ hfs[hfIndex + 1].ttd > td
             THEN HardforkByTail(hfs, 0, timestamp)
             ELSE HardforkByTail(hfs, hfIndex, timestamp)
        ELSE IF mergeIndex >= 0 /\ td # Undef
                /\ hfIndex >= mergeIndex /\ hfs[mergeIndex + 1].ttd > td
        THEN Thrown("Maximum HF determined by total difficulty is lower than the block number HF")
        ELSE IF mergeIndex >= 0 /\ td # Undef
                /\ hfIndex < mergeIndex /\ hfs[mergeIndex + 1].ttd <= td
        THEN Thrown("HF determined by block number is lower than the minimum total difficulty HF")
        ELSE HardforkByTail(hfs, hfIndex, timestamp)

\* lines 358-377: the candidate, the merge decision by total difficulty
HardforkByMerge(hfs, mergeIndex, candidate, timestamp, td) ==
    LET hfIndex == candidate - 1
    IN  IF hfIndex < 0 \/ hfIndex > Len(hfs) - 1
        THEN Thrown("TypeError")
        ELSE IF hfs[hfIndex + 1].block = Null /\ hfs[hfIndex + 1].timestamp = Undef
        THEN IF td = Undef \/ hfs[hfIndex + 1].ttd > td
             THEN HardforkByTail(hfs, hfIndex - 1, timestamp)
             ELSE HardforkByTail(hfs, hfIndex, timestamp)
        ELSE IF mergeIndex >= 0 /\ td # Undef
                /\ hfIndex >= mergeIndex /\ hfs[mergeIndex + 1].ttd > td
        THEN Thrown("Maximum HF determined by total difficulty is lower than the block number HF")
        ELSE IF mergeIndex >= 0 /\ td # Undef
                /\ hfIndex < mergeIndex /\ hfs[mergeIndex + 1].ttd <= td
        THEN Thrown("HF determined by block number is lower than the minimum total difficulty HF")
        ELSE HardforkByTail(hfs, hfIndex, timestamp)

\* a getHardforkBy that counts a hardfork as later when its block is the
\* block asked for
GetHardforkByBlockBefore(all, blockNumber, timestamp, td) ==
    LET hfs == SelectSeq(all, Applied)
        mergeIndex == FindIndex(hfs, HasTTD)
        doubleTTDHF == FindIndex(Slice(hfs, mergeIndex + 1, Len(hfs)), HasTTD)
        later(hf) == \/ blockNumber # Undef /\ hf.block # Null /\ hf.block >= blockNumber
                                         /\ hf.block > 0
                     \/ timestamp # Undef /\ hf.timestamp # Undef /\ hf.timestamp > timestamp
        found == FindIndex(hfs, later)
        hfIndex == IF found = 0 - 1 THEN Len(hfs) ELSE found
        blockOrTTD(hf) == hf.block # Null \/ hf.ttd # Undef
        stepBack == FindIndex(Reverse(Slice(hfs, 0, hfIndex)), blockOrTTD)
        candidate == IF timestamp = Undef THEN hfIndex - stepBack ELSE hfIndex
    IN  IF doubleTTDHF >= 0
        THEN Thrown("More than one merge hardforks found with ttd specified")
        ELSE IF found = 0
        THEN Thrown("Must have at least one hardfork at block 0")
        ELSE HardforkByMerge(hfs, mergeIndex, candidate, timestamp, td)

GetHardforkBy(all, blockNumber, timestamp, td) ==
    LET hfs == SelectSeq(all, Applied)
        mergeIndex == FindIndex(hfs, HasTTD)
        doubleTTDHF == FindIndex(Slice(hfs, mergeIndex + 1, Len(hfs)), HasTTD)
        later(hf) == \/ blockNumber # Undef /\ hf.block # Null /\ hf.block > blockNumber
                     \/ timestamp # Undef /\ hf.timestamp # Undef /\ hf.timestamp > timestamp
        found == FindIndex(hfs, later)
        hfIndex == IF found = 0 - 1 THEN Len(hfs) ELSE found
        blockOrTTD(hf) == hf.block # Null \/ hf.ttd # Undef
        stepBack == FindIndex(Reverse(Slice(hfs, 0, hfIndex)), blockOrTTD)
        candidate == IF timestamp = Undef THEN hfIndex - stepBack ELSE hfIndex
    IN  IF doubleTTDHF >= 0
        THEN Thrown("More than one merge hardforks found with ttd specified")
        ELSE IF found = 0
        THEN Thrown("Must have at least one hardfork at block 0")
        ELSE HardforkByMerge(hfs, mergeIndex, candidate, timestamp, td)

----------------------------------------------------------------------------
(* Common: setHardfork, setHardforkBy, setEIPs *)

\* the names given to setHardfork in this model; "unknown" is in no schedule
HardforkNames == {"chainstart", "byzantium", "berlin", "london", "cancun", "unknown"}

\* setHardfork: the hardfork afterwards; an unknown name throws and sets nothing
SetHardforkValue(hfs, cur, name) ==
    IF \E i \in DOMAIN hfs : hfs[i].name = name THEN name ELSE cur

\* a setHardfork that signals only a move to a later hardfork
SetHardforkEmitsForwardOnly(hfs, cur, name) ==
    (\E i \in DOMAIN hfs : hfs[i].name = name) /\ PosOf(hfs, name) > PosOf(hfs, cur)

\* setHardfork emits hardforkChanged exactly when it changes _hardfork
SetHardforkEmits(hfs, cur, name) ==
    (\E i \in DOMAIN hfs : hfs[i].name = name) /\ cur # name

\* setEIPs: TRUE when the loop over the list throws nothing
SetEIPsAccepts(hfs, hf, es, list) ==
    \A i \in DOMAIN list :
        /\ list[i] \in KnownEIPs
        /\ GteHardfork(hfs, hf, EIPMinimumHardfork(list[i]))
        /\ \A elem \in EIPRequired(list[i]) :
              elem \in Range(list) \/ IsActivatedEIP(hfs, hf, es, elem)

----------------------------------------------------------------------------
(* Common.param: the parameters of the EIP files and of the hardfork files *)

\* the topics every EIP file and every hardfork file defines
Topics == {"gasConfig", "gasPrices", "vm", "pow"}

\* eips/1559.json: gasConfig.initialBaseFee is 1000000000 wei; the model
\* counts base fees in units of 1000000 wei
InitialBaseFee == 1000

\* eips/index.js: EIPs[eip][topic][name].v, Undef where the file has no such
\* parameter
EIPParam(eip, topic, name) ==
    CASE eip = 3554 /\ topic = "pow" /\ name = "difficultyBombDelay" -> 9500000
      [] eip = 4345 /\ topic = "pow" /\ name = "difficultyBombDelay" -> 10700000
      [] eip = 5133 /\ topic = "pow" /\ name = "difficultyBombDelay" -> 11400000
      [] eip = 2929 /\ topic = "gasPrices" /\ name = "sload" -> 0
      [] eip = 1153 /\ topic = "gasPrices" /\ name = "tstore" -> 100
      [] eip = 3860 /\ topic = "vm" /\ name = "maxInitCodeSize" -> 49152
      [] eip = 1559 /\ topic = "gasConfig" /\ name = "baseFeeMaxChangeDenominator" -> 8
      [] eip = 1559 /\ topic = "gasConfig" /\ name = "elasticityMultiplier" -> 2
      [] eip = 1559 /\ topic = "gasConfig" /\ name = "initialBaseFee" -> InitialBaseFee
      [] eip = 4844 /\ topic = "sharding" /\ name = "blobCommitmentVersionKzg" -> 1
      [] OTHER -> Undef

\* hardforks/index.js: the parameters a hardfork file inlines
HardforkParam(hf, topic, name) ==
    CASE hf = "chainstart" /\ topic = "gasPrices" /\ name = "sload" -> 50
      [] hf = "chainstart" /\ topic = "gasConfig" /\ name = "gasLimitBoundDivisor" -> 1024
      [] hf = "chainstart" /\ topic = "gasConfig" /\ name = "minGasLimit" -> 5000
      [] hf = "byzantium" /\ topic = "pow" /\ name = "difficultyBombDelay" -> 3000000
      [] hf = "istanbul" /\ topic = "gasPrices" /\ name = "sload" -> 800
      [] OTHER -> Undef

\* lines 530-544
ParamByEIP(topic, name, eip) == EIPParam(eip, topic, name)

\* lines 505-508: the EIPs of an EIP-referencing hardfork file, in order
RECURSIVE ParamOfHardforkEIPs(_, _, _, _, _)
ParamOfHardforkEIPs(topic, name, hfEIPs, i, value) ==
    IF i > Len(hfEIPs) THEN value
    ELSE LET valueEIP == ParamByEIP(topic, name, hfEIPs[i])
         IN  ParamOfHardforkEIPs(topic, name, hfEIPs, i + 1,
                                 IF valueEIP # Undef THEN valueEIP ELSE value)

\* lines 501-519: the loop over HARDFORK_CHANGES from its entry i on
RECURSIVE ParamByHardforkLoop(_, _, _, _, _, _)
ParamByHardforkLoop(hfs, topic, name, hf, i, value) ==
    IF i > Len(hfs) THEN value
    ELSE LET this == hfs[i].name
             next == IF ReferencesEIPs(this)
                     THEN ParamOfHardforkEIPs(topic, name, HardforkEIPList(this), 1, value)
                     ELSE IF HardforkParam(this, topic, name) # Undef
                     THEN HardforkParam(this, topic, name)
                     ELSE value
         IN  IF this = hf THEN next
             ELSE ParamByHardforkLoop(hfs, topic, name, hf, i + 1, next)

\* lines 499-521
ParamByHardfork(hfs, topic, name, hf) ==
    LET value == ParamByHardforkLoop(hfs, topic, name, hf, 1, Null)
    IN  IF value = Null THEN 0 ELSE value

\* a param that lets a later EIP of the list overwrite an earlier one
ParamLastEIP(hfs, hf, es, topic, name, i) ==
    LET defining == {k \in DOMAIN es : ParamByEIP(topic, name, es[k]) # Undef}
    IN  IF defining = {} THEN ParamByHardfork(hfs, topic, name, hf)
        ELSE ParamByEIP(topic, name,
                        es[CHOOSE k \in defining : \A l \in defining : l <= k])

\* lines 481-490: the loop over _eips from its entry i on
RECURSIVE ParamLoop(_, _, _, _, _, _)
ParamLoop(hfs, hf, es, topic, name, i) ==
    IF i > Len(es) THEN ParamByHardfork(hfs, topic, name, hf)
    ELSE IF ParamByEIP(topic, name, es[i]) # Undef
    THEN ParamByEIP(topic, name, es[i])
    ELSE ParamLoop(hfs, hf, es, topic, name, i + 1)

\* a topic no file defines makes paramByEIP or paramByHardfork throw
Param(hfs, hf, es, topic, name) ==
    IF topic \notin Topics
    THEN Thrown("Topic not defined")
    ELSE [ok |-> TRUE, name |-> ParamLoop(hfs, hf, es, topic, name, 1)]

----------------------------------------------------------------------------
(* Common.forkHash: CRC32 over the genesis hash and the activation points   *)

\* exclusive or of two 4-bit values, bit by bit
XorNibble ==
    [a \in 0..15 |-> [b \in 0..15 |->
        ((a + b) % 2) + 2 * (((a \div 2) + (b \div 2)) % 2)
        + 4 * (((a \div 4) + (b \div 4)) % 2) + 8 * (((a \div 8) + (b \div 8)) % 2)]]

XorByte(a, b) == 16 * XorNibble[a \div 16][b \div 16] + XorNibble[a % 16][b % 16]

\* a 32-bit register is four bytes, the most significant first
Xor32(c, d) == [i \in 1..4 |-> XorByte(c[i], d[i])]

Shr1(c) ==
    << c[1] \div 2,
       (c[1] % 2) * 128 + c[2] \div 2,
       (c[2] % 2) * 128 + c[3] \div 2,
       (c[3] % 2) * 128 + c[4] \div 2 >>

\* the reflected CRC-32 polynomial 0xEDB88320
Polynomial == <<237, 184, 131, 32>>

RECURSIVE Crc32Rounds(_, _)
Crc32Rounds(c, k) ==
    IF k = 0 THEN c
    ELSE Crc32Rounds(IF c[4] % 2 = 1 THEN Xor32(Shr1(c), Polynomial) ELSE Shr1(c), k - 1)

Crc32Table == [n \in 0..255 |-> Crc32Rounds(<<0, 0, 0, n>>, 8)]

Crc32Step(c, byte) ==
    LET t == Crc32Table[XorByte(c[4], byte)]
    IN  <<t[1], XorByte(t[2], c[1]), XorByte(t[3], c[2]), XorByte(t[4], c[3])>>

RECURSIVE Crc32Update(_, _, _)
Crc32Update(c, bytes, i) ==
    IF i > Len(bytes) \/ Len(c) # 4 THEN c
    ELSE Crc32Update(Crc32Step(c, bytes[i]), bytes, i + 1)

\* crc/crc32: the CRC-32 of the bytes as a signed 32-bit integer
Crc(bytes) ==
    LET c == Xor32(Crc32Update(<<255, 255, 255, 255>>, bytes, 1), <<255, 255, 255, 255>>)
        top == IF c[1] >= 128 THEN c[1] - 256 ELSE c[1]
    IN  top * 16777216 + c[2] * 65536 + c[3] * 256 + c[4]

\* x >>> 0: the unsigned 32-bit value, as its two 16-bit halves
ToUint32(x) == [hi |-> (x \div 65536) % 65536, lo |-> x % 65536]

\* intToBytes of an unsigned 32-bit value: its four bytes, big-endian
IntToBytes(u) == <<u.hi \div 256, u.hi % 256, u.lo \div 256, u.lo % 256>>

\* bytesToHex: two hex digits per byte
BytesToHex(bytes) ==
    [i \in 1..(2 * Len(bytes)) |->
        IF i % 2 = 1 THEN bytes[(i + 1) \div 2] \div 16 ELSE bytes[i \div 2] % 16]

\* hexToBytes('0x' + blockOrTime.toString(16).padStart(16, '0'))
Be8(n) ==
    <<0, 0, 0, 0, n \div 16777216, (n \div 65536) % 256, (n \div 256) % 256, n % 256>>

\* timestamp ?? block
BlockOrTime(hf) ==
    IF hf.timestamp # Undef /\ hf.timestamp # Null THEN hf.timestamp ELSE hf.block

\* a loop that hashes a hardfork although the one before it has the same
\* activation point
RECURSIVE CalcForkHashLoopRepeats(_, _, _, _, _)
CalcForkHashLoopRepeats(hfs, hf, i, hfBytes, prevBlockOrTime) ==
    IF i > Len(hfs) THEN hfBytes
    ELSE LET blockOrTime == BlockOrTime(hfs[i])
             applies == /\ blockOrTime # Null
                        /\ blockOrTime # 0
                        /\ hfs[i].name # "paris"
             bytes == IF applies THEN hfBytes \o Be8(blockOrTime) ELSE hfBytes
         IN  IF hfs[i].name = hf THEN bytes
             ELSE CalcForkHashLoopRepeats(hfs, hf, i + 1, bytes, prevBlockOrTime)

\* a loop that does not stop at the hardfork asked for
RECURSIVE CalcForkHashLoopNoBreak(_, _, _, _, _)
CalcForkHashLoopNoBreak(hfs, hf, i, hfBytes, prevBlockOrTime) ==
    IF i > Len(hfs) THEN hfBytes
    ELSE LET blockOrTime == BlockOrTime(hfs[i])
             applies == /\ blockOrTime # Null
                        /\ blockOrTime # 0
                        /\ blockOrTime # prevBlockOrTime
                        /\ hfs[i].name # "paris"
             bytes == IF applies THEN hfBytes \o Be8(blockOrTime) ELSE hfBytes
             prev == IF applies THEN blockOrTime ELSE prevBlockOrTime
         IN  CalcForkHashLoopNoBreak(hfs, hf, i + 1, bytes, prev)

\* lines 759-781: the loop over the hardforks from entry i on
RECURSIVE CalcForkHashLoop(_, _, _, _, _)
CalcForkHashLoop(hfs, hf, i, hfBytes, prevBlockOrTime) ==
    IF i > Len(hfs) THEN hfBytes
    ELSE LET blockOrTime == BlockOrTime(hfs[i])
             applies == /\ blockOrTime # Null
                        /\ blockOrTime # 0
                        /\ blockOrTime # prevBlockOrTime
                        /\ hfs[i].name # "paris"
             bytes == IF applies THEN hfBytes \o Be8(blockOrTime) ELSE hfBytes
             prev == IF applies THEN blockOrTime ELSE prevBlockOrTime
         IN  IF hfs[i].name = hf THEN bytes
             ELSE CalcForkHashLoop(hfs, hf, i + 1, bytes, prev)

\* lines 756-788
CalcForkHash(hfs, hf, genesisHash) ==
    LET hfBytes == CalcForkHashLoop(hfs, hf, 1, <<>>, 0)
        inputBytes == genesisHash \o hfBytes
    IN  Returned(BytesToHex(IntToBytes(ToUint32(Crc(inputBytes)))))

\* an optional Uint8Array argument: passed, or left undefined
Given(bytes) == [given |-> TRUE, bytes |-> bytes]
NotGiven == [given |-> FALSE]

\* lines 795-810
ForkHash(hfs, presets, hf, genesisHash) ==
    LET data == hfs[PosOf(hfs, hf)]
    IN  IF PosOf(hfs, hf) = 0
        THEN Thrown("No fork hash calculation possible for future hardfork")
        ELSE IF data.block = Null /\ data.timestamp = Undef /\ data.ttd = Undef
        THEN Thrown("No fork hash calculation possible for future hardfork")
        ELSE IF hf \in DOMAIN presets THEN Returned(presets[hf])
        ELSE IF ~genesisHash.given
        THEN Thrown("genesisHash required for forkHash calculation")
        ELSE CalcForkHash(hfs, hf, genesisHash.bytes)

----------------------------------------------------------------------------
(* precompiles/index.ts *)

\* a Map as a function: DOMAIN is the set of keys the Map has
MapSet(m, k, v) == (k :> v) @@ m

EmptyMap == [x \in {} |-> "undefined"]

HardforkCheck(addr, param, f) ==
    [address |-> addr, type |-> "Hardfork", hf |-> param, eip |-> 0, precompile |-> f]

EIPCheck(addr, param, f) ==
    [address |-> addr, type |-> "EIP", hf |-> "", eip |-> param, precompile |-> f]

\* the addresses are the numbers the 20-byte hex strings spell
precompileEntries ==
    << HardforkCheck(1, "chainstart", "precompile01"),
       HardforkCheck(2, "chainstart", "precompile02"),
       HardforkCheck(3, "chainstart", "precompile03"),
       HardforkCheck(4, "chainstart", "precompile04"),
       HardforkCheck(5, "byzantium", "precompile05"),
       HardforkCheck(6, "byzantium", "precompile06"),
       HardforkCheck(7, "byzantium", "precompile07"),
       HardforkCheck(8, "byzantium", "precompile08"),
       HardforkCheck(9, "istanbul", "precompile09"),
       EIPCheck(10, 4844, "precompile0a"),
       EIPCheck(12, 2537, "precompile0c"),
       EIPCheck(13, 2537, "precompile0d"),
       EIPCheck(14, 2537, "precompile0e"),
       EIPCheck(15, 2537, "precompile0f"),
       EIPCheck(16, 2537, "precompile10"),
       EIPCheck(17, 2537, "precompile11"),
       EIPCheck(18, 2537, "precompile12"),
       EIPCheck(19, 2537, "precompile13"),
       EIPCheck(20, 2537, "precompile14") >>

\* lines 253-260: the custom entries, in order; a DeletePrecompile (function
\* "undefined") sets the key to undefined
RECURSIVE CustomPrecompileMap(_, _)
CustomPrecompileMap(custom, n) ==
    IF n = 0 THEN EmptyMap
    ELSE LET precompileMap == CustomPrecompileMap(custom, n - 1)
         IN  MapSet(precompileMap, custom[n].address, custom[n].function)

\* lines 267-271: the availability check of a built-in entry
PrecompileAvailable(hfs, hf, es, entry) ==
    \/ entry.type = "Hardfork" /\ GteHardfork(hfs, hf, entry.hf)
    \/ entry.type = "EIP" /\ IsActivatedEIP(hfs, hf, es, entry.eip)

\* a loop pass without the has() test: an available built-in replaces the
\* custom entry
AddPrecompileEntryOverCustom(hfs, hf, es, map, entry) ==
    IF PrecompileAvailable(hfs, hf, es, entry)
    THEN MapSet(map, entry.address, entry.precompile)
    ELSE map

\* lines 261-274: one pass of the loop over precompileEntries
AddPrecompileEntry(hfs, hf, es, map, entry) ==
    IF entry.address \in DOMAIN map THEN map
    ELSE IF PrecompileAvailable(hfs, hf, es, entry)
    THEN MapSet(map, entry.address, entry.precompile)
    ELSE map

RECURSIVE ActivePrecompilesLoop(_, _, _, _, _)
ActivePrecompilesLoop(hfs, hf, es, custom, n) ==
    IF n = 0 THEN CustomPrecompileMap(custom, Len(custom))
    ELSE LET precompileMap == ActivePrecompilesLoop(hfs, hf, es, custom, n - 1)
         IN  AddPrecompileEntry(hfs, hf, es, precompileMap, precompileEntries[n])

GetActivePrecompiles(hfs, hf, es, custom) ==
    ActivePrecompilesLoop(hfs, hf, es, custom, Len(precompileEntries))

\* EVM.getPrecompile on a given map: Map.get, undefined for a missing key
GetPrecompile(map, addr) == IF addr \in DOMAIN map THEN map[addr] ELSE "undefined"

----------------------------------------------------------------------------
(* opcodes/index.js: the opcode table as a function of hardfork, EIPs and   *)
(* custom opcodes                                                           *)

BaseOpcodes == (0 :> "STOP") @@ (1 :> "ADD") @@ (68 :> "DIFFICULTY") @@ (243 :> "RETURN")

HardforkOpcodes(hfs, hf) ==
    (IF GteHardfork(hfs, hf, "homestead") THEN (244 :> "DELEGATECALL") ELSE EmptyMap)
    @@ (IF GteHardfork(hfs, hf, "byzantium") THEN (253 :> "REVERT") ELSE EmptyMap)
    @@ (IF GteHardfork(hfs, hf, "istanbul") THEN (71 :> "SELFBALANCE") ELSE EmptyMap)

EIPOpcodes(hfs, hf, es) ==
    (IF IsActivatedEIP(hfs, hf, es, 3198) THEN (72 :> "BASEFEE") ELSE EmptyMap)
    @@ (IF IsActivatedEIP(hfs, hf, es, 4399) THEN (68 :> "PREVRANDAO") ELSE EmptyMap)
    @@ (IF IsActivatedEIP(hfs, hf, es, 3855) THEN (95 :> "PUSH0") ELSE EmptyMap)
    @@ (IF IsActivatedEIP(hfs, hf, es, 1153)
        THEN (92 :> "TLOAD") @@ (93 :> "TSTORE") ELSE EmptyMap)
    @@ (IF IsActivatedEIP(hfs, hf, es, 4844) THEN (73 :> "BLOBHASH") ELSE EmptyMap)
    @@ (IF IsActivatedEIP(hfs, hf, es, 5656) THEN (94 :> "MCOPY") ELSE EmptyMap)

\* a custom opcode with a name overrides or adds, one without deletes
RECURSIVE ApplyCustomOpcodes(_, _, _)
ApplyCustomOpcodes(table, custom, n) ==
    IF n = 0 THEN table
    ELSE LET t == ApplyCustomOpcodes(table, custom, n - 1)
             c == custom[n]
         IN  IF c.opcodeName = "undefined"
             THEN [x \in DOMAIN t \ {c.opcode} |-> t[x]]
             ELSE MapSet(t, c.opcode, c.opcodeName)

GetOpcodesForHF(hfs, hf, es, custom) ==
    ApplyCustomOpcodes(EIPOpcodes(hfs, hf, es) @@ HardforkOpcodes(hfs, hf) @@ BaseOpcodes,
                       custom, Len(custom))

----------------------------------------------------------------------------
(* EVM: the tables and the hardforkChanged listener *)

\* lines 299-302: the listener registered in the constructor
HardforkChangedListener(hfs, hf, es, customP, customO) ==
    [opcodes |-> GetOpcodesForHF(hfs, hf, es, customO),
     precompiles |-> GetActivePrecompiles(hfs, hf, es, customP)]

----------------------------------------------------------------------------
(* The journaled state (journal.js) and the transient storage              *)
(* (transientStorage.js)                                                    *)

\* keys of the journaled state: an account, the storage slot of a contract,
\* the warm mark of an address
AcctKey(a) == <<"acct", a>>
SlotKey(a) == <<"slot", a>>
WarmKey(a) == <<"warm", a>>

\* a checkpoint: the keys written since it was taken and, for those that had
\* a value, the previous value
NoChanges == [touched |-> {}, prev |-> EmptyMap]

\* the previous value of key k is recorded in the innermost checkpoint, once
RecordPrevious(j, w, k) ==
    LET n == Len(j)
    IN  IF n = 0 \/ k \in j[n].touched
        THEN j
        ELSE [j EXCEPT ![n] =
                [touched |-> @.touched \cup {k},
                 prev |-> IF k \in DOMAIN w THEN (k :> w[k]) @@ @.prev ELSE @.prev]]

\* all values written since checkpoint e are restored
Undo(w, e) ==
    [k \in (DOMAIN w \ e.touched) \cup DOMAIN e.prev |->
        IF k \in DOMAIN e.prev THEN e.prev[k] ELSE w[k]]

\* checkpoint e is merged into its parent p: the parent keeps its own, older
\* previous values
MergeInto(p, e) ==
    [touched |-> p.touched \cup e.touched,
     prev |-> [k \in DOMAIN p.prev \cup (DOMAIN e.prev \ p.touched) |->
                 IF k \in DOMAIN p.prev THEN p.prev[k] ELSE e.prev[k]]]

PopCommitted(j) ==
    LET n == Len(j)
    IN  IF n = 1 THEN <<>>
        ELSE Append(SubSeq(j, 1, n - 2), MergeInto(j[n - 1], j[n]))

\* Journal.putAccount / putStorage / addWarmedAddress on the machine m
JournalPut(m, k, v) ==
    [m EXCEPT !.j = RecordPrevious(m.j, m.w, k),
              !.w = (k :> v) @@ m.w,
              !.shadow = (k :> v) @@ m.shadow]

\* Journal.deleteAccount / clearContractStorage
JournalDelete(m, k) ==
    [m EXCEPT !.j = RecordPrevious(m.j, m.w, k),
              !.w = [x \in DOMAIN m.w \ {k} |-> m.w[x]],
              !.shadow = [x \in DOMAIN m.shadow \ {k} |-> m.shadow[x]]]

JournalCheckpoint(m) == [m EXCEPT !.j = Append(@, NoChanges)]

JournalRevert(m) ==
    [m EXCEPT !.w = Undo(m.w, m.j[Len(m.j)]),
              !.j = SubSeq(m.j, 1, Len(m.j) - 1),
              !.undone = TRUE]

JournalCommit(m) == [m EXCEPT !.j = PopCommitted(m.j)]

\* TransientStorage: the same operations on its own stack
TransientPut(m, k, v) ==
    [m EXCEPT !.tj = RecordPrevious(m.tj, m.tw, k), !.tw = (k :> v) @@ m.tw]

TransientCheckpoint(m) == [m EXCEPT !.tj = Append(@, NoChanges)]

TransientRevert(m) ==
    [m EXCEPT !.tw = Undo(m.tw, m.tj[Len(m.tj)]),
              !.tj = SubSeq(m.tj, 1, Len(m.tj) - 1)]

TransientCommit(m) == [m EXCEPT !.tj = PopCommitted(m.tj)]

\* TransientStorage.clear: the storage and the recorded changes are dropped,
\* the open checkpoints stay open
TransientClear(m) ==
    [m EXCEPT !.tw = EmptyMap, !.tj = [i \in DOMAIN m.tj |-> NoChanges]]

\* new Account()
NewAccount == [nonce |-> 0, balance |-> 0, code |-> "empty"]

\* stateManager.getAccount(a) ?? new Account()
GetAccount(m, a) == IF AcctKey(a) \in DOMAIN m.w THEN m.w[AcctKey(a)] ELSE NewAccount

PutAccount(m, a, account) == JournalPut(m, AcctKey(a), account)

GetSlot(m, a) == IF SlotKey(a) \in DOMAIN m.w THEN m.w[SlotKey(a)] ELSE 0

\* stateManager.putContractCode under the journal's checkpoints
PutContractCode(m, a, code) ==
    JournalPut(m, AcctKey(a), [GetAccount(m, a) EXCEPT !.code = code])

----------------------------------------------------------------------------
(* Values of the execution *)

\* the accounts of the model: the externally owned caller, a contract with
\* code, an address without an account, the identity precompile
Caller == 33
Contract == 34
NoAccount == 35
Identity == 4

\* opts.gasLimit of the messages of the model
GasLimit == 1000

\* the largest balance: MAX_INTEGER is 2^256 - 1, the model's balances are
\* scaled to 8 bits
MAX_INTEGER == 2^8 - 1

\* common.param('gasPrices', 'createData'), ('vm', 'maxCodeSize'),
\* ('vm', 'maxInitCodeSize'), and the gas the identity precompile charges for
\* an empty input
CreateData == 200
MaxCodeSize == 24576
MaxInitCodeSize == 49152
IdentityGas == 15

\* EVM options
AllowUnlimitedContractSize == FALSE
AllowUnlimitedInitCodeSize == allowUnlimitedInitCodeSize

\* byte strings are modelled by their kind: a return value is empty, one
\* plain byte, one byte over the code size limit, the single byte 0xEF, a
\* valid EOF1 container, or an EOF1 container with an undefined opcode; init
\* code is empty, some code, or one byte over the init code size limit
Length(bytes) ==
    CASE bytes = "empty" -> 0
      [] bytes = "plain" -> 1
      [] bytes = "ef" -> 1
      [] bytes = "eof" -> 8
      [] bytes = "eofBadOps" -> 8
      [] bytes = "big" -> MaxCodeSize + 1
      [] bytes = "code" -> 1
      [] bytes = "oversized" -> MaxInitCodeSize + 1

\* returnValue[0] === EOF.FORMAT
StartsWithFormat(bytes) == bytes \in {"ef", "eof", "eofBadOps"}

\* EOF.codeAnalysis(container)?.code is defined
CodeAnalysisDefined(bytes) == bytes \in {"eof", "eofBadOps"}

\* EOF.validOpcodes(code)
ValidOpcodes(bytes) == bytes = "eof"

Activated(eip) == IsActivatedEIP(schedule, hardfork, eips, eip)
Gte(name) == GteHardfork(schedule, hardfork, name)

\* an ExecResult; a field the code leaves undefined is Undef (gas), 0 (logs,
\* gasRefund) or the empty set
ExecResult(err, used, gas, rv, logs, refund, sd, created) ==
    [exceptionError |-> err, executionGasUsed |-> used, gas |-> gas,
     returnValue |-> rv, logs |-> logs, gasRefund |-> refund,
     selfdestruct |-> sd, createdAddresses |-> created]

\* { ...result, ...XResult(gasUsed) }
Override(result, err, used) ==
    [result EXCEPT !.returnValue = "empty", !.executionGasUsed = used,
                   !.exceptionError = err]

OOGResult(result, gasLimit) == Override(result, "OUT_OF_GAS", gasLimit)
COOGResultNoGas(result, gasUsedCreateCode) == Override(result, "CODESTORE_OUT_OF_GAS", 0)

COOGResult(result, gasUsedCreateCode) ==
    Override(result, "CODESTORE_OUT_OF_GAS", gasUsedCreateCode)
INVALID_BYTECODE_RESULT(result, gasLimit) ==
    Override(result, "INVALID_BYTECODE_RESULT", gasLimit)
INVALID_EOF_RESULT(result, gasLimit) == Override(result, "INVALID_EOF_FORMAT", gasLimit)
CodesizeExceedsMaximumError(result, gasUsed) ==
    Override(result, "CODESIZE_EXCEEDS_MAXIMUM", gasUsed)

\* how the interpreter ended when it did not run
NotRun == [err |-> "notrun", ret |-> "empty", gasLeft |-> 0]

\* what _executeCall / _executeCreate hand back to runCall: a result, a
\* message the interpreter now runs, or a thrown error
Done(m, msg, res) == [tag |-> "done", m |-> m, msg |-> msg, res |-> res]
Running(m, msg) ==
    [tag |-> "run", m |-> m, msg |-> msg,
     res |-> ExecResult("none", 0, Undef, "empty", 0, 0, {}, {})]
Threw(m, msg, err) ==
    [tag |-> "thrown", m |-> m, msg |-> msg,
     res |-> ExecResult(err, 0, Undef, "empty", 0, 0, {}, {})]

\* lines 962-975: keccak is abstracted to a function of the caller, so a
\* second creation by one caller meets the account of the first
GenerateAddress(caller) == caller + 10

\* _reduceSenderBalance writing the account past the journal
ReduceSenderBalanceUnjournaled(m, account, message) ==
    LET balance == account.balance - message.value
    IN  IF balance < 0
        THEN [thrown |-> TRUE, error |-> "INSUFFICIENT_BALANCE", m |-> m]
        ELSE [thrown |-> FALSE, error |-> "none",
              m |-> [m EXCEPT !.w = (AcctKey(message.caller) :>
                                        [account EXCEPT !.balance = balance]) @@ m.w,
                              !.shadow = (AcctKey(message.caller) :>
                                        [account EXCEPT !.balance = balance]) @@ m.shadow]]

\* lines 977-987
ReduceSenderBalance(m, account, message) ==
    LET balance == account.balance - message.value
    IN  IF balance < 0
        THEN [thrown |-> TRUE, error |-> "INSUFFICIENT_BALANCE", m |-> m]
        ELSE [thrown |-> FALSE, error |-> "none",
              m |-> PutAccount(m, message.caller, [account EXCEPT !.balance = balance])]

\* an _addToBalance that puts the account with the balance it had
AddToBalanceLosesValue(m, toAccount, message) ==
    LET newBalance == toAccount.balance + message.value
    IN  IF newBalance > MAX_INTEGER
        THEN [thrown |-> TRUE, error |-> "VALUE_OVERFLOW", m |-> m]
        ELSE [thrown |-> FALSE, error |-> "none",
              m |-> PutAccount(m, message.to, toAccount)]

\* lines 989-1001
AddToBalance(m, toAccount, message) ==
    LET newBalance == toAccount.balance + message.value
    IN  IF newBalance > MAX_INTEGER
        THEN [thrown |-> TRUE, error |-> "VALUE_OVERFLOW", m |-> m]
        ELSE [thrown |-> FALSE, error |-> "none",
              m |-> PutAccount(m, message.to, [toAccount EXCEPT !.balance = newBalance])]

\* lines 944-960: the code of message.to, a precompile first
LoadCode(m, message) ==
    LET precompile == GetPrecompile(evmPrecompiles, message.to)
    IN  IF precompile # "undefined"
        THEN [code |-> precompile, isCompiled |-> TRUE]
        ELSE [code |-> GetAccount(m, message.to).code, isCompiled |-> FALSE]

\* lines 924-942 with the identity precompile: out of gas consumes gasLimit
RunPrecompile(message) ==
    IF message.gasLimit < IdentityGas
    THEN ExecResult("OUT_OF_GAS", message.gasLimit, Undef, "empty", 0, 0, {}, {})
    ELSE ExecResult("none", IdentityGas, Undef, "empty", 0, 0, {}, {})

\* lines 1006-1008
PostMessageCleanup(m) == IF Activated(1153) THEN TransientClear(m) ELSE m

\* lines 358-434: a delegatecall leaves the balances alone
ExecuteCall(m, message) ==
    LET account == GetAccount(m, message.caller)
        reduced == IF message.delegatecall
                   THEN [thrown |-> FALSE, error |-> "none", m |-> m]
                   ELSE ReduceSenderBalance(m, account, message)
        toAccount == GetAccount(reduced.m, message.to)
        added == IF message.delegatecall
                 THEN [thrown |-> FALSE, error |-> "none", m |-> reduced.m]
                 ELSE AddToBalance(reduced.m, toAccount, message)
        errorMessage == IF added.thrown THEN added.error ELSE reduced.error
        loaded == LoadCode(added.m, message)
        msg == [message EXCEPT !.code = loaded.code]
        exit == loaded.code = "empty" \/ errorMessage # "none"
    IN  IF exit
        THEN Done(added.m, msg,
                  ExecResult(errorMessage, 0, Undef, "empty", 0, message.gasRefund, {}, {}))
        ELSE IF loaded.isCompiled
        THEN Done(IF message.depth = 0 THEN PostMessageCleanup(added.m) ELSE added.m, msg,
                  [RunPrecompile(message) EXCEPT !.gasRefund = message.gasRefund])
        ELSE Running(added.m, msg)

\* a limit on the init code that holds with or without EIP-3860
InitCodeSizeAlwaysChecked(message) ==
    Length(message.data) > MaxInitCodeSize /\ ~AllowUnlimitedInitCodeSize

\* lines 444-449: the init code is longer than EIP-3860 allows
InitCodeSizeViolation(message) ==
    /\ Activated(3860)
    /\ Length(message.data) > MaxInitCodeSize
    /\ ~AllowUnlimitedInitCodeSize

\* a collision that looks at the code only
CollidesOnCodeOnly(toAccount) == toAccount.code # "empty"

\* lines 476-492: the check for a collision at the address of the creation
Collides(toAccount) == toAccount.nonce > 0 \/ toAccount.code # "empty"

\* lines 436-544: _executeCreate up to the start of the interpreter
ExecuteCreate(m, message) ==
    LET account == GetAccount(m, message.caller)
        reduced == ReduceSenderBalance(m, account, message)
        to == GenerateAddress(message.caller)
        msg == [message EXCEPT !.code = message.data, !.data = "empty", !.to = to,
                               !.createdAddresses =
                                   IF Activated(6780) THEN @ \cup {to} ELSE @]
        toAccount == GetAccount(reduced.m, to)
        m1 == JournalDelete(PutAccount(reduced.m, to, toAccount), SlotKey(to))
        created == GetAccount(m1, to)
        bumped == IF Gte("spuriousDragon")
                  THEN [created EXCEPT !.nonce = @ + 1] ELSE created
        added == AddToBalance(m1, bumped, msg)
        exit == msg.code = "empty" \/ added.thrown
    IN  IF reduced.thrown
        THEN Threw(m, message, reduced.error)
        ELSE IF InitCodeSizeViolation(message)
        THEN Done(reduced.m, message,
                  ExecResult("INITCODE_SIZE_VIOLATION", message.gasLimit, Undef,
                             "empty", 0, 0, {}, {}))
        ELSE IF Collides(toAccount)
        THEN Done(reduced.m, msg,
                  ExecResult("CREATE_COLLISION", message.gasLimit, Undef,
                             "empty", 0, 0, {}, {}))
        ELSE IF exit
        THEN Done(added.m, msg,
                  ExecResult(added.error, 0, Undef, "empty", 0, message.gasRefund, {}, {}))
        ELSE Running(added.m, msg)

\* lines 715-746: the ExecResult runInterpreter makes of the interpreter's
\* end (its error, return value and gas left) and of the frame's result
RunInterpreter(fr, end) ==
    LET gasUsed == IF end.err \notin {"none", "REVERT", "INVALID_EOF_FORMAT"}
                   THEN fr.msg.gasLimit
                   ELSE fr.msg.gasLimit - end.gasLeft
        failed == end.err # "none"
    IN  ExecResult(end.err, gasUsed, end.gasLeft, end.ret,
                   IF failed THEN 0 ELSE fr.logs,
                   fr.gasRefund,
                   IF failed THEN {} ELSE fr.selfdestruct,
                   IF failed THEN {} ELSE fr.msg.createdAddresses)

\* lines 574-639: the result after the code deposit checks
DepositChecked(message, result, totalGas, returnFee, allowedCodeSize) ==
    IF totalGas <= message.gasLimit /\ (AllowUnlimitedContractSize \/ allowedCodeSize)
    THEN IF Activated(3541) /\ StartsWithFormat(result.returnValue)
         THEN LET r1 == IF ~Activated(3540)
                        THEN INVALID_BYTECODE_RESULT(result, message.gasLimit)
                        ELSE result
              IN  IF ~CodeAnalysisDefined(r1.returnValue)
                  THEN INVALID_EOF_RESULT(r1, message.gasLimit)
                  ELSE IF Activated(3670)
                  THEN IF ~ValidOpcodes(r1.returnValue)
                       THEN INVALID_EOF_RESULT(r1, message.gasLimit)
                       ELSE [r1 EXCEPT !.executionGasUsed = totalGas]
                  ELSE r1
         ELSE [result EXCEPT !.executionGasUsed = totalGas]
    ELSE IF Gte("homestead")
         THEN IF ~allowedCodeSize
              THEN CodesizeExceedsMaximumError(result, message.gasLimit)
              ELSE OOGResult(result, message.gasLimit)
         ELSE IF totalGas - returnFee <= message.gasLimit
              THEN COOGResult(result, totalGas - returnFee)
              ELSE OOGResult(result, message.gasLimit)

\* lines 550-667: _executeCreate after the interpreter has ended
FinishCreate(m, message, result) ==
    LET noError == result.exceptionError = "none"
        returnFee == IF noError THEN Length(result.returnValue) * CreateData ELSE 0
        totalGas == result.executionGasUsed + returnFee
        allowedCodeSize == ~(/\ noError
                             /\ Gte("spuriousDragon")
                             /\ Length(result.returnValue) > MaxCodeSize)
        checked == DepositChecked(message, result, totalGas, returnFee, allowedCodeSize)
        CodestoreOOG == checked.exceptionError = "CODESTORE_OUT_OF_GAS"
    IN  [res |-> checked,
         m |-> IF checked.exceptionError = "none" /\ Length(checked.returnValue) # 0
               THEN PutContractCode(m, message.to, checked.returnValue)
               ELSE IF CodestoreOOG /\ ~Gte("homestead")
               THEN PutAccount(m, message.to, GetAccount(m, message.to))
               ELSE m]

\* a runCall that dismisses no error
DismissedNever(hf, err) == FALSE

\* lines 863-866: the error runCall dismisses
Dismissed(hf, err) == hf = "chainstart" /\ err = "CODESTORE_OUT_OF_GAS"

\* Interpreter: what the calling frame takes over from the result of the
\* message it sent
Absorb(fr, res) ==
    IF res.exceptionError = "none"
    THEN [fr EXCEPT !.logs = @ + res.logs,
                    !.gasRefund = res.gasRefund,
                    !.selfdestruct = res.selfdestruct,
                    !.msg.createdAddresses = res.createdAddresses]
    ELSE [fr EXCEPT !.logs = @ + res.logs]

\* lines 852-882: runCall after _executeCall / _executeCreate has returned;
\* the result goes to the caller of runCall, at depth > 0 the calling frame
FinishRunCall(m, message, snap, res0, end) ==
    LET err == res0.exceptionError
        res1 == IF err # "none" /\ err # "CODESTORE_OUT_OF_GAS"
                THEN [res0 EXCEPT !.selfdestruct = {}, !.createdAddresses = {},
                                  !.gasRefund = 0]
                ELSE res0
        reverts == err # "none" /\ ~Dismissed(hardfork, err)
        res == IF reverts THEN [res1 EXCEPT !.logs = 0] ELSE res1
        m1 == IF reverts THEN JournalRevert(m) ELSE JournalCommit(m)
        m2 == IF Activated(1153)
              THEN IF reverts THEN TransientRevert(m1) ELSE TransientCommit(m1)
              ELSE m1
        returned == [outcome |-> IF reverts THEN "reverted" ELSE "committed",
                     message |-> message, res |-> res, end |-> end, snap |-> snap]
    IN  IF message.depth = 0
        THEN [m2 EXCEPT !.last = returned, !.phase = "done"]
        ELSE [m2 EXCEPT !.last = returned,
                        !.frames[Len(m2.frames)] = Absorb(@, res)]

\* the state runCall's checkpoint was taken in, and the logs and the refund
\* of the calling frame at that time
Snapshot(m, logs, refund) == [w |-> m.w, tw |-> m.tw, logs |-> logs, refund |-> refund]

NoMessage ==
    [caller |-> Undef, to |-> Undef, value |-> 0, gasLimit |-> 0, depth |-> 0,
     data |-> "empty", code |-> "empty", gasRefund |-> 0,
     selfdestruct |-> {}, createdAddresses |-> {}, delegatecall |-> FALSE]

\* no runCall has just returned
NoResult ==
    [outcome |-> "none", message |-> NoMessage,
     res |-> ExecResult("none", 0, Undef, "empty", 0, 0, {}, {}),
     end |-> NotRun,
     snap |-> [w |-> EmptyMap, tw |-> EmptyMap, logs |-> 0, refund |-> 0]]

\* a runCall that bumps the nonce of the caller at every depth
BumpCallerNonceAtAnyDepth(m, message) ==
    PutAccount(m, message.caller,
               [GetAccount(m, message.caller) EXCEPT !.nonce = @ + 1])

\* lines 796-808: at depth 0 the nonce of the caller is incremented
BumpCallerNonce(m, message) ==
    IF message.depth = 0
    THEN PutAccount(m, message.caller,
                    [GetAccount(m, message.caller) EXCEPT !.nonce = @ + 1])
    ELSE m

\* lines 796-882: runCall once it has its message; callerLogs is the log
\* count of the calling frame
RunMessage(given, message, callerLogs) ==
    LET create == message.to = Undef
        m0 == BumpCallerNonce(given, message)
        m1 == IF create /\ Activated(2929)
              THEN JournalPut(m0, WarmKey(GenerateAddress(message.caller)), TRUE)
              ELSE m0
        m2 == JournalCheckpoint(m1)
        m3 == IF Activated(1153) THEN TransientCheckpoint(m2) ELSE m2
        snap == Snapshot(m3, callerLogs, message.gasRefund)
        ex == IF create THEN ExecuteCreate(m3, message) ELSE ExecuteCall(m3, message)
    IN  CASE ex.tag = "thrown" ->
                [ex.m EXCEPT !.phase = "thrown",
                             !.last = [outcome |-> "thrown", message |-> ex.msg,
                                       res |-> ex.res, end |-> NotRun, snap |-> snap]]
          [] ex.tag = "run" ->
                [ex.m EXCEPT !.phase = "running", !.last = NoResult,
                             !.frames = Append(@,
                                 [create |-> create, msg |-> ex.msg, snap |-> snap,
                                  logs |-> 0, gasRefund |-> ex.msg.gasRefund,
                                  selfdestruct |-> ex.msg.selfdestruct])]
          [] ex.tag = "done" -> FinishRunCall(ex.m, ex.msg, snap, ex.res, NotRun)

----------------------------------------------------------------------------
(* Construction: new Common({chain, hardfork, eips}), new EVM({common,      *)
(* customPrecompiles, customOpcodes})                                       *)

\* the EIPs a caller passes to the Common in this model
UserEIPs == {1153, 2537, 4844}

\* custom precompiles: at the address of a hardfork-gated built-in (delete,
\* add), of an EIP-gated built-in (delete), and at an address without a
\* built-in (add)

SeqsUpTo(S, n) == UNION {[1..k -> S] : k \in 0..n}

CustomPrecompileEntries ==
    { [address |-> 1, function |-> "undefined"],
      [address |-> 1, function |-> "custom"],
      [address |-> 10, function |-> "undefined"],
      [address |-> 32, function |-> "custom"] }

CustomOpcodeLists ==
    { <<>>,
      << [opcode |-> 95, opcodeName |-> "undefined"],
         [opcode |-> 33, opcodeName |-> "CUSTOM"] >> }

\* the hardfork and the EIPs a Common is constructed with in this model
InitHardforks == {"chainstart", "london", "cancun"}
InitEIPLists == {<<>>, <<2537>>, <<1153>>, <<4844, 2537>>}

InitCommon ==
    /\ schedule \in Schedules
    /\ hardfork \in InitHardforks \cap {schedule[i].name : i \in DOMAIN schedule}
    /\ eips \in {l \in InitEIPLists : SetEIPsAccepts(schedule, hardfork, <<>>, l)}

InitTables ==
    /\ customPrecompiles \in SeqsUpTo(CustomPrecompileEntries, MaxCustom)
    /\ customOpcodes \in CustomOpcodeLists
    /\ allowUnlimitedInitCodeSize = FALSE
    /\ evmOpcodes = GetOpcodesForHF(schedule, hardfork, eips, customOpcodes)
    /\ evmPrecompiles = GetActivePrecompiles(schedule, hardfork, eips, customPrecompiles)

\* an EVM constructed with at most one custom precompile
InitPlainTables ==
    /\ customPrecompiles \in SeqsUpTo(CustomPrecompileEntries, 1)
    /\ customOpcodes = <<>>
    /\ allowUnlimitedInitCodeSize = FALSE
    /\ evmOpcodes = GetOpcodesForHF(schedule, hardfork, eips, customOpcodes)
    /\ evmPrecompiles = GetActivePrecompiles(schedule, hardfork, eips, customPrecompiles)


----------------------------------------------------------------------------
(* The EVM as a machine: one runCall from the outside, the frames of the    *)
(* interpreter, the messages they send                                      *)

\* most interpreter steps of one run, most frames on the call stack
MaxSteps == 2
MaxDepth == 2

Machine ==
    [w |-> world, j |-> journal, shadow |-> shadow, undone |-> undone,
     tw |-> tstore, tj |-> tjournal, frames |-> frames, last |-> lastCall,
     phase |-> phase, steps |-> steps]

SetMachine(m) ==
    /\ world' = m.w
    /\ journal' = m.j
    /\ shadow' = m.shadow
    /\ undone' = m.undone
    /\ tstore' = m.tw
    /\ tjournal' = m.tj
    /\ frames' = m.frames
    /\ lastCall' = m.last
    /\ phase' = m.phase
    /\ steps' = m.steps
    /\ UNCHANGED auxVars

\* the state a run starts in: the caller owns 1, the contract holds the
\* largest balance and a set storage slot
InitialWorld ==
    (AcctKey(Caller) :> [nonce |-> 0, balance |-> 1, code |-> "empty"])
    @@ (AcctKey(Contract) :> [nonce |-> 1, balance |-> MAX_INTEGER, code |-> "code"])
    @@ (SlotKey(Contract) :> 1)

InitMachine ==
    /\ world = InitialWorld
    /\ journal = <<>>
    /\ shadow = InitialWorld
    /\ undone = FALSE
    /\ tstore = EmptyMap
    /\ tjournal = <<>>
    /\ frames = <<>>
    /\ lastCall = NoResult
    /\ phase = "idle"
    /\ steps = 0

\* no call on the Common has been recorded
NoAnswer == [op |-> "none"]

\* copy() has not been called
NoCopy == [made |-> FALSE]

\* no payload has been started
NoPending == [status |-> "none"]

\* no PendingBlock has been constructed
NoPendingBlock == [made |-> FALSE]

InitAux ==
    /\ answer = NoAnswer
    /\ forkHashes = EmptyMap
    /\ copied = NoCopy
    /\ pending = NoPending
    /\ pendingBlock = NoPendingBlock

\* the chain, hardforks and EIPs of the EVMs that run messages
MainnetFull ==
    << HF("chainstart", 0, Undef, Undef),
       HF("homestead", 1, Undef, Undef),
       HF("spuriousDragon", 2, Undef, Undef),
       HF("byzantium", 3, Undef, Undef),
       HF("istanbul", 4, Undef, Undef),
       HF("berlin", 5, Undef, Undef),
       HF("london", 6, Undef, Undef),
       HF("paris", Null, Undef, 10),
       HF("shanghai", Null, 20, Undef),
       HF("cancun", Null, 30, Undef) >>

RunHardforks == {"chainstart", "london", "cancun"}
RunEIPLists == {<<>>, <<3540>>, <<3540, 3670>>}

InitRunTables ==
    /\ schedule = MainnetFull
    /\ hardfork \in RunHardforks
    /\ eips \in {l \in RunEIPLists : SetEIPsAccepts(schedule, hardfork, <<>>, l)}
    /\ customPrecompiles = <<>>
    /\ customOpcodes = <<>>
    /\ allowUnlimitedInitCodeSize \in IF eips = <<>> THEN BOOLEAN ELSE {FALSE}
    /\ evmOpcodes = GetOpcodesForHF(schedule, hardfork, eips, customOpcodes)
    /\ evmPrecompiles = GetActivePrecompiles(schedule, hardfork, eips, customPrecompiles)

\* EVMRunCallOpts
Opts(to, value, skipBalance, data, gasLimit) ==
    [to |-> to, value |-> value, skipBalance |-> skipBalance, data |-> data,
     gasLimit |-> gasLimit, delegatecall |-> FALSE]

\* the runCall calls of the model: calls of the contract, of an address
\* without an account, of the caller itself and of the identity precompile,
\* a delegatecall, and creations, with values the caller can and cannot pay
\* and with gas for a longer code
CallOpts ==
    { Opts(Contract, 0, FALSE, "empty", GasLimit),
      Opts(Contract, 1, FALSE, "empty", GasLimit),
      Opts(NoAccount, 1, FALSE, "empty", GasLimit),
      Opts(NoAccount, 2, FALSE, "empty", GasLimit),
      Opts(NoAccount, 2, TRUE, "empty", GasLimit),
      Opts(Contract, 2, TRUE, "empty", GasLimit),
      Opts(Caller, 1, FALSE, "empty", GasLimit),
      [Opts(NoAccount, 1, FALSE, "empty", GasLimit) EXCEPT !.delegatecall = TRUE],
      Opts(Identity, 0, FALSE, "empty", GasLimit),
      Opts(Identity, 0, FALSE, "empty", 0),
      Opts(Undef, 1, FALSE, "code", 2 * GasLimit),
      Opts(Undef, 2, FALSE, "code", GasLimit),
      Opts(Undef, 0, FALSE, "oversized", GasLimit),
      Opts(Undef, 0, FALSE, "empty", GasLimit) }

\* lines 754-795 and on: runCall(opts) without opts.message
RunCall(opts) ==
    /\ phase = "idle"
    /\ LET m0 == Machine
           loaded == GetAccount(m0, Caller)
           topUp == opts.skipBalance /\ loaded.balance < opts.value
           m1 == IF topUp
                 THEN PutAccount(m0, Caller, [loaded EXCEPT !.balance = opts.value])
                 ELSE m0
           message == [caller |-> Caller, to |-> opts.to, value |-> opts.value,
                       gasLimit |-> opts.gasLimit, depth |-> 0, data |-> opts.data,
                       code |-> "empty", gasRefund |-> 0,
                       selfdestruct |-> {}, createdAddresses |-> {},
                       delegatecall |-> opts.delegatecall]
       IN  SetMachine(RunMessage(m1, message, 0))
    /\ UNCHANGED <<commonVars, tableVars>>

\* the frame the interpreter is running
Top == frames[Len(frames)]

\* Interpreter, SSTORE: the slot of the running contract is flipped; clearing
\* it adds to the refund counter
InterpSstore ==
    /\ phase = "running" /\ steps < MaxSteps
    /\ LET a == Top.msg.to
           v == 1 - GetSlot(Machine, a)
           m1 == JournalPut(Machine, SlotKey(a), v)
       IN  SetMachine([m1 EXCEPT !.frames[Len(frames)].gasRefund =
                                     IF v = 0 THEN @ + 1 ELSE @,
                                 !.steps = @ + 1, !.last = NoResult])
    /\ UNCHANGED <<commonVars, tableVars>>

\* Interpreter, TSTORE: an opcode of the table with EIP-1153
InterpTstore ==
    /\ phase = "running" /\ steps < MaxSteps
    /\ 93 \in DOMAIN evmOpcodes
    /\ SetMachine([TransientPut(Machine, Top.msg.to, 1)
                      EXCEPT !.steps = @ + 1, !.last = NoResult])
    /\ UNCHANGED <<commonVars, tableVars>>

\* Interpreter, LOG
InterpLog ==
    /\ phase = "running" /\ steps < MaxSteps
    /\ SetMachine([Machine EXCEPT !.frames[Len(frames)].logs = @ + 1,
                                  !.steps = @ + 1, !.last = NoResult])
    /\ UNCHANGED <<commonVars, tableVars>>

\* Interpreter, CALL of the contract: runCall({message}) at the next depth
InterpCall ==
    /\ phase = "running" /\ steps < MaxSteps
    /\ Top.msg.depth + 1 < MaxDepth
    /\ LET m1 == IF Activated(2929)
                 THEN JournalPut(Machine, WarmKey(Contract), TRUE)
                 ELSE Machine
           message == [caller |-> Top.msg.to, to |-> Contract, value |-> 0,
                       gasLimit |-> GasLimit, depth |-> Top.msg.depth + 1,
                       data |-> "empty", code |-> "empty",
                       gasRefund |-> Top.gasRefund,
                       selfdestruct |-> Top.selfdestruct,
                       createdAddresses |-> Top.msg.createdAddresses,
                       delegatecall |-> FALSE]
       IN  SetMachine(RunMessage([m1 EXCEPT !.steps = @ + 1], message, Top.logs))
    /\ UNCHANGED <<commonVars, tableVars>>

\* Interpreter, CREATE: the nonce of the running contract is bumped, then
\* runCall({message}) without a to address
InterpCreate ==
    /\ phase = "running" /\ steps < MaxSteps
    /\ Top.msg.depth + 1 < MaxDepth
    /\ LET a == Top.msg.to
           m1 == PutAccount(Machine, a, [GetAccount(Machine, a) EXCEPT !.nonce = @ + 1])
           message == [caller |-> a, to |-> Undef, value |-> 0,
                       gasLimit |-> GasLimit, depth |-> Top.msg.depth + 1,
                       data |-> "code", code |-> "empty",
                       gasRefund |-> Top.gasRefund,
                       selfdestruct |-> Top.selfdestruct,
                       createdAddresses |-> Top.msg.createdAddresses,
                       delegatecall |-> FALSE]
       IN  SetMachine(RunMessage([m1 EXCEPT !.steps = @ + 1], message, Top.logs))
    /\ UNCHANGED <<commonVars, tableVars>>

End(err, ret, gasLeft) == [err |-> err, ret |-> ret, gasLeft |-> gasLeft]

\* how the interpreter ends a frame: STOP, RETURN, REVERT, out of gas, a
\* code of invalid EOF format
CallEnds ==
    { End("none", "empty", 700), End("none", "plain", 700),
      End("REVERT", "plain", 700), End("OUT_OF_GAS", "empty", 0),
      End("INVALID_EOF_FORMAT", "empty", 700) }

\* init code also returns code that the deposit cannot pay for, that is too
\* long, or that starts with 0xEF, with gas for its deposit or without
CreateEnds ==
    CallEnds \cup
    { End("none", "plain", 100), End("none", "big", 700), End("none", "ef", 700),
      End("none", "eof", 700), End("none", "eofBadOps", 700),
      End("none", "eof", 1800), End("none", "eofBadOps", 1800),
      End("REVERT", "ef", 700) }

\* runInterpreter returns (lines 715-746), _executeCall or _executeCreate
\* finishes, runCall finishes (lines 852-882)
InterpHalt(end) ==
    /\ phase = "running"
    /\ end \in IF Top.create THEN CreateEnds ELSE CallEnds
    /\ end.gasLeft <= Top.msg.gasLimit
    /\ end.err = "REVERT" => 253 \in DOMAIN evmOpcodes
    /\ end.err = "INVALID_EOF_FORMAT" => Activated(3540)
    /\ LET fr == Top
           m0 == [Machine EXCEPT !.frames = SubSeq(@, 1, Len(@) - 1)]
           result == RunInterpreter(fr, end)
           fin == IF fr.create
                  THEN FinishCreate(m0, fr.msg, result)
                  ELSE [res |-> result,
                        m |-> IF fr.msg.depth = 0 THEN PostMessageCleanup(m0) ELSE m0]
       IN  SetMachine(FinishRunCall(fin.m, fr.msg, fr.snap, fin.res, end))
    /\ UNCHANGED <<commonVars, tableVars>>


----------------------------------------------------------------------------
(* Actions on the Common an EVM was constructed with *)

\* what a call of setHardfork(name) does to the Common and, through the
\* hardforkChanged listener, to the EVM's tables
DoSetHardfork(name) ==
    LET emits == SetHardforkEmits(schedule, hardfork, name)
        new == SetHardforkValue(schedule, hardfork, name)
        rebuilt == HardforkChangedListener(schedule, new, eips,
                                           customPrecompiles, customOpcodes)
    IN  /\ hardfork' = new
        /\ evmOpcodes' = IF emits THEN rebuilt.opcodes ELSE evmOpcodes
        /\ evmPrecompiles' = IF emits THEN rebuilt.precompiles ELSE evmPrecompiles
        /\ UNCHANGED <<schedule, eips, customPrecompiles, customOpcodes,
                       allowUnlimitedInitCodeSize>>
        /\ UNCHANGED machineVars

SetHardfork(name) == DoSetHardfork(name) /\ UNCHANGED auxVars

BlockInputs == {Undef, 0, 3}
TimestampInputs == {Undef, 20, 30}
TdInputs == {Undef, 10}

SetHardforkBy(blockNumber, timestamp, td) ==
    LET got == GetHardforkBy(schedule, blockNumber, timestamp, td)
    IN  /\ IF got.ok
           THEN DoSetHardfork(got.name)
           ELSE UNCHANGED commonVars /\ UNCHANGED tableVars /\ UNCHANGED machineVars
        /\ UNCHANGED auxVars

\* setEIPs replaces _eips when the list is accepted and throws otherwise;
\* it emits nothing
SetEIPs(list) ==
    /\ eips' = IF SetEIPsAccepts(schedule, hardfork, eips, list) THEN list ELSE eips
    /\ UNCHANGED <<schedule, hardfork>>
    /\ UNCHANGED tableVars
    /\ UNCHANGED machineVars
    /\ UNCHANGED auxVars

vars == <<schedule, hardfork, eips,
          customPrecompiles, customOpcodes, evmPrecompiles, evmOpcodes,
          allowUnlimitedInitCodeSize,
          world, journal, tstore, tjournal, frames, phase, steps, lastCall,
          shadow, undone, answer, forkHashes, copied, pending, pendingBlock>>

NextHardfork ==
    \/ \E name \in HardforkNames : SetHardfork(name)
    \/ \E b \in BlockInputs, t \in TimestampInputs, td \in TdInputs : SetHardforkBy(b, t, td)

\* an EVM whose Common sees setHardfork and setHardforkBy calls
InitHardfork == InitCommon /\ InitTables /\ InitMachine /\ InitAux

SpecHardfork == InitHardfork /\ [][NextHardfork]_vars

NextCommon ==
    \/ NextHardfork
    \/ \E list \in SeqsUpTo(UserEIPs, MaxEips) : SetEIPs(list)

\* an EVM whose Common sees setHardfork, setHardforkBy and setEIPs calls
InitPlain == InitCommon /\ InitPlainTables /\ InitMachine /\ InitAux

SpecCommon == InitPlain /\ [][NextCommon]_vars

NextRun ==
    \/ \E opts \in CallOpts : RunCall(opts)
    \/ InterpSstore
    \/ InterpTstore
    \/ InterpLog
    \/ InterpCall
    \/ InterpCreate
    \/ \E end \in CreateEnds : InterpHalt(end)

\* an EVM that runs one message from the outside
InitRun == InitRunTables /\ InitMachine /\ InitAux

SpecRun == InitRun /\ [][NextRun]_vars

----------------------------------------------------------------------------
(* Claims on the tables *)

PrecompileAddresses == 1..32
OpcodeNumbers == 0..255

\* C8: after any sequence of setHardfork / setHardforkBy calls the EVM's
\* precompile map and opcode table are the ones computed from scratch for the
\* Common's current hardfork and EIPs with the same custom entries
TablesFollowHardfork ==
    /\ evmPrecompiles = GetActivePrecompiles(schedule, hardfork, eips, customPrecompiles)
    /\ evmOpcodes = GetOpcodesForHF(schedule, hardfork, eips, customOpcodes)

\* shanghai is set by setHardforkBy alone (no Common is constructed on it and
\* setHardfork is not called with it): the tables have gained PUSH0 and kept
\* the istanbul precompile
TablesRebuiltWitness ==
    /\ hardfork = "shanghai"
    /\ customOpcodes = <<>>
    /\ 95 \in DOMAIN evmOpcodes /\ evmOpcodes[95] = "PUSH0"
    /\ GetPrecompile(evmPrecompiles, 9) = "precompile09"

\* C9: after setEIPs the EVM's precompile map and opcode table answer, for
\* every address and opcode, as the tables computed from scratch for the new
\* EIP set do
TablesFollowEIPs ==
    LET fresh == HardforkChangedListener(schedule, hardfork, eips,
                                         customPrecompiles, customOpcodes)
    IN  /\ \A addr \in PrecompileAddresses :
              GetPrecompile(evmPrecompiles, addr) = GetPrecompile(fresh.precompiles, addr)
        /\ \A op \in OpcodeNumbers :
              (op \in DOMAIN evmOpcodes) = (op \in DOMAIN fresh.opcodes)

\* the last custom entry for an address, 0 when there is none
RECURSIVE LastCustom(_, _, _)
LastCustom(custom, addr, n) ==
    IF n = 0 THEN 0
    ELSE IF custom[n].address = addr THEN n ELSE LastCustom(custom, addr, n - 1)

\* the availability predicate of a built-in entry, as the claim states it
EntryAvailable(entry) ==
    \/ /\ entry.type = "Hardfork"
       /\ PosOf(schedule, entry.hf) # 0
       /\ PosOf(schedule, hardfork) >= PosOf(schedule, entry.hf)
    \/ /\ entry.type = "EIP"
       /\ \/ entry.eip \in Range(eips)
          \/ \E i \in DOMAIN schedule :
                /\ PosOf(schedule, hardfork) >= i
                /\ i = PosOf(schedule, schedule[i].name)
                /\ entry.eip \in HardforkEIPs(schedule[i].name)

ResolvedPrecompile(addr) ==
    LET c == LastCustom(customPrecompiles, addr, Len(customPrecompiles))
        builtin == {i \in DOMAIN precompileEntries :
                       precompileEntries[i].address = addr
                       /\ EntryAvailable(precompileEntries[i])}
    IN  IF c # 0 THEN customPrecompiles[c].function
        ELSE IF builtin # {} THEN precompileEntries[CHOOSE i \in builtin : TRUE].precompile
        ELSE "undefined"

\* C10: for every address getPrecompile answers with the custom entry when
\* there is one (the function of a custom add, nothing for a custom delete)
\* and otherwise with the built-in precompile exactly when its availability
\* predicate holds
PrecompileResolution ==
    \A addr \in PrecompileAddresses :
        GetPrecompile(evmPrecompiles, addr) = ResolvedPrecompile(addr)

\* a custom delete of an available built-in, a custom add where there is no
\* built-in, and an EIP-gated built-in made available by its EIP
PrecompileResolutionWitness ==
    /\ customPrecompiles = << [address |-> 1, function |-> "undefined"],
                              [address |-> 32, function |-> "custom"] >>
    /\ hardfork = "byzantium"
    /\ 2537 \in Range(eips)
    /\ GetPrecompile(evmPrecompiles, 1) = "undefined"
    /\ GetPrecompile(evmPrecompiles, 32) = "custom"
    /\ GetPrecompile(evmPrecompiles, 12) = "precompile0c"
    /\ GetPrecompile(evmPrecompiles, 10) = "undefined"

----------------------------------------------------------------------------
(* Claims on runCall *)

\* a runCall has just returned a result
HasReturned == lastCall.outcome \in {"committed", "reverted"}

\* C1: reverting a checkpoint restores exactly the state that held when it
\* was taken, whatever was written, committed or reverted inside it, and the
\* logs and refunds appended since are not seen by the calling frame; when
\* every checkpoint of a run was committed the state is the one the writes
\* give when applied in sequence
JournalRestoresCheckpoint ==
    /\ lastCall.outcome = "reverted" =>
          /\ world = lastCall.snap.w
          /\ lastCall.res.logs = 0
          /\ lastCall.res.gasRefund = 0
          /\ lastCall.message.depth > 0 =>
                /\ Top.logs = lastCall.snap.logs
                /\ Top.gasRefund = lastCall.snap.refund
    /\ (phase = "done" /\ ~undone) => world = shadow

\* the outermost checkpoint is reverted after a creation inside it has
\* deployed code and was committed: the created account is gone again
JournalRestoresWitness ==
    /\ lastCall.outcome = "reverted"
    /\ lastCall.message.depth = 0
    /\ AcctKey(GenerateAddress(Contract)) \in DOMAIN shadow
    /\ shadow[AcctKey(GenerateAddress(Contract))].code = "plain"
    /\ AcctKey(GenerateAddress(Contract)) \notin DOMAIN world
    /\ world = lastCall.snap.w

\* C2, as amended: runCall reverts the checkpoint of every frame whose
\* ExecResult carries an exception other than CODESTORE_OUT_OF_GAS on
\* chainstart, and commits the checkpoint of every other frame; a reverted
\* frame leaves the state and, with EIP-1153, the transient storage as they
\* were at its checkpoint, and the checkpoint is closed either way
RevertsUnlessDismissed ==
    HasReturned =>
        /\ lastCall.outcome = "reverted" <=>
              /\ lastCall.res.exceptionError # "none"
              /\ ~(/\ hardfork = "chainstart"
                   /\ lastCall.res.exceptionError = "CODESTORE_OUT_OF_GAS")
        /\ lastCall.outcome = "reverted" =>
              /\ world = lastCall.snap.w
              /\ Activated(1153) => tstore = lastCall.snap.tw
        /\ Len(journal) = lastCall.message.depth
        /\ Activated(1153) => Len(tjournal) = lastCall.message.depth

\* a creation on chainstart that cannot pay the code deposit: the result
\* carries CODESTORE_OUT_OF_GAS and the frame is committed, the account stays
DismissedWitness ==
    /\ lastCall.outcome = "committed"
    /\ lastCall.res.exceptionError = "CODESTORE_OUT_OF_GAS"
    /\ hardfork = "chainstart"
    /\ AcctKey(lastCall.message.to) \in DOMAIN world

\* C2, as stated: the checkpoint is reverted for every frame whose ExecResult
\* carries an exception and committed for every frame without one
OnlyNormalCommits ==
    HasReturned =>
        (lastCall.outcome = "reverted" <=> lastCall.res.exceptionError # "none")

\* C3: an ExecResult with an exception other than REVERT has
\* executionGasUsed equal to the gas limit of the message
ExceptionConsumesAllGas ==
    (HasReturned /\ lastCall.res.exceptionError \notin {"none", "REVERT"}) =>
        lastCall.res.executionGasUsed = lastCall.message.gasLimit

\* C4: the ExecResult of a frame that ended with REVERT keeps the return
\* data, charges gas limit minus gas left, carries no logs, selfdestructs,
\* created addresses or refund, and the state is the one of the checkpoint
RevertKeepsReturnData ==
    (HasReturned /\ lastCall.end.err = "REVERT") =>
        /\ lastCall.res.returnValue = lastCall.end.ret
        /\ lastCall.res.executionGasUsed = lastCall.message.gasLimit - lastCall.end.gasLeft
        /\ lastCall.outcome = "reverted"
        /\ world = lastCall.snap.w
        /\ lastCall.res.logs = 0
        /\ lastCall.res.selfdestruct = {}
        /\ lastCall.res.createdAddresses = {}
        /\ lastCall.res.gasRefund = 0

\* C5: runCall never throws: every message ends with a returned EVMResult
\* and no checkpoint is left open
ErrorsAreReturned ==
    /\ phase # "thrown"
    /\ lastCall.outcome # "thrown"

\* C6: with EIP-1153 the transient storage is empty once the runCall at
\* depth 0 has returned
TransientEmptyAfterRun ==
    (phase = "done" /\ Activated(1153)) => DOMAIN tstore = {}

\* C7: a frame that ran code and ended without an exception reports
\* executionGasUsed and gas that add up to its gas limit
GasConservation ==
    (/\ HasReturned
     /\ lastCall.end.err = "none"
     /\ lastCall.res.exceptionError = "none") =>
        lastCall.res.executionGasUsed + lastCall.res.gas = lastCall.message.gasLimit

\* C34: a creation that succeeds and stores code reports as executionGasUsed
\* the gas the init code used plus createData times the length of the code
\* returned, whatever EIPs are active, and this total is within the gas limit
DepositCharged ==
    (/\ HasReturned
     /\ lastCall.message.to = GenerateAddress(lastCall.message.caller)
     /\ lastCall.end # NotRun
     /\ lastCall.res.exceptionError = "none"
     /\ Length(lastCall.res.returnValue) # 0) =>
        /\ GetAccount(Machine, lastCall.message.to).code = lastCall.res.returnValue
        /\ lastCall.res.executionGasUsed
               = (lastCall.message.gasLimit - lastCall.end.gasLeft)
                     + CreateData * Length(lastCall.res.returnValue)
        /\ lastCall.res.executionGasUsed <= lastCall.message.gasLimit

\* the message the interpreter of the frame on top hands to runCall: a call
\* of the contract or, without to, a creation
MessageFrom(fr, to) ==
    [caller |-> fr.msg.to, to |-> to, value |-> 0, gasLimit |-> GasLimit,
     depth |-> fr.msg.depth + 1, data |-> IF to = Undef THEN "code" ELSE "empty",
     code |-> "empty", gasRefund |-> fr.gasRefund, selfdestruct |-> fr.selfdestruct,
     createdAddresses |-> fr.msg.createdAddresses, delegatecall |-> FALSE]

\* the accounts and the storage of a state
Accounts(w) == [k \in {x \in DOMAIN w : x[1] \in {"acct", "slot"}} |-> w[k]]

\* at depth above 0 runCall leaves the nonce of the caller as it is
NestedKeepsNonce ==
    phase = "running" =>
        \A to \in {Contract, NoAccount, Undef} :
            GetAccount(RunMessage(Machine, MessageFrom(Top, to), Top.logs), Top.msg.to).nonce
                = GetAccount(Machine, Top.msg.to).nonce

\* C37 as stated: after a message at depth 0 that failed and was reverted
\* the nonce of the caller is one above its value before the call, every
\* other field of every account and all storage are as before the call; at
\* depth above 0 runCall does not change the nonce of the caller
NonceBumpSurvivesRevert ==
    /\ (phase = "done" /\ lastCall.outcome = "reverted" /\ lastCall.message.depth = 0) =>
          Accounts(world)
              = Accounts((AcctKey(Caller) :>
                             [InitialWorld[AcctKey(Caller)] EXCEPT !.nonce = @ + 1])
                         @@ InitialWorld)
    /\ NestedKeepsNonce

\* C37 amended: the same, but that a runCall with skipBalance has raised
\* the balance of the caller to the value of the call before the checkpoint
\* when it was below it, and this balance stays as well
NonceBumpAndTopUpSurviveRevert ==
    /\ (phase = "done" /\ lastCall.outcome = "reverted" /\ lastCall.message.depth = 0) =>
          \E balance \in {InitialWorld[AcctKey(Caller)].balance, lastCall.message.value} :
              /\ balance >= InitialWorld[AcctKey(Caller)].balance
              /\ Accounts(world)
                     = Accounts((AcctKey(Caller) :>
                                    [InitialWorld[AcctKey(Caller)]
                                        EXCEPT !.nonce = @ + 1, !.balance = balance])
                                @@ InitialWorld)
    /\ NestedKeepsNonce

\* a call at depth 0 that wrote to the storage, created a contract and then
\* failed was reverted
NonceBumpWitness ==
    /\ phase = "done"
    /\ lastCall.outcome = "reverted"
    /\ lastCall.message.depth = 0
    /\ AcctKey(GenerateAddress(Contract)) \in DOMAIN shadow
    /\ shadow[SlotKey(Contract)] # InitialWorld[SlotKey(Contract)]
    /\ GetAccount(Machine, Caller).nonce = 1

\* C38: every runCall takes one checkpoint and closes it with one commit or
\* one revert, on the journal and with EIP-1153 on the transient storage,
\* whatever the outcome of the message: while frames run each holds one
\* checkpoint, a runCall that ended left as many as it found, and none is
\* open once the runCall at depth 0 is over
CheckpointsWellBracketed ==
    /\ phase = "running" =>
          /\ Len(journal) = Len(frames)
          /\ Activated(1153) => Len(tjournal) = Len(frames)
    /\ lastCall.outcome # "none" =>
          /\ Len(journal) = lastCall.message.depth
          /\ Activated(1153) => Len(tjournal) = lastCall.message.depth
    /\ phase \in {"done", "thrown"} =>
          /\ Len(journal) = 0
          /\ Activated(1153) => Len(tjournal) = 0

\* the balance of an address, nothing for one without an account
Balance(w, a) == IF AcctKey(a) \in DOMAIN w THEN w[AcctKey(a)].balance ELSE 0

\* the addresses with an account
Holders(w) == { k[2] : k \in {x \in DOMAIN w : x[1] = "acct"} }

RECURSIVE TotalOf(_, _)
TotalOf(w, S) ==
    IF S = {} THEN 0
    ELSE LET a == CHOOSE x \in S : TRUE
         IN  Balance(w, a) + TotalOf(w, S \ {a})

\* the sum of all account balances
TotalBalance(w) == TotalOf(w, Holders(w))

\* between two states value has gone from the caller of the message to its
\* recipient and no other balance differs
Moved(before, after, message, value) ==
    \A a \in Holders(before) \cup Holders(after) :
        Balance(after, a) = Balance(before, a)
                               + (IF a = message.to THEN value ELSE 0)
                               - (IF a = message.caller THEN value ELSE 0)

\* the runCall at depth 0 did not raise the balance of its caller
NoTopUp == Balance(lastCall.snap.w, Caller) = Balance(InitialWorld, Caller)

\* C40: a runCall conserves the sum of the balances; when it succeeds
\* exactly value has gone from the caller to the recipient or to the created
\* account, nothing for a delegatecall, and nothing changes on the whole when
\* both are one account; when the transfer fails no balance has changed
ValueTransferConserves ==
    /\ lastCall.outcome # "none" =>
          /\ TotalBalance(world) = TotalBalance(lastCall.snap.w)
          /\ lastCall.res.exceptionError = "none" =>
                Moved(lastCall.snap.w, world, lastCall.message,
                      IF lastCall.message.delegatecall THEN 0 ELSE lastCall.message.value)
          /\ lastCall.res.exceptionError \in {"INSUFFICIENT_BALANCE", "VALUE_OVERFLOW"} =>
                Moved(lastCall.snap.w, world, lastCall.message, 0)
    /\ (phase \in {"done", "thrown"} /\ NoTopUp) =>
          TotalBalance(world) = TotalBalance(InitialWorld)
    /\ (phase = "running" /\ Balance(frames[1].snap.w, Caller) = Balance(InitialWorld, Caller)) =>
          TotalBalance(world) = TotalBalance(InitialWorld)

\* a call has paid its value to an address that had no account
ValuePaidWitness ==
    /\ lastCall.outcome = "committed"
    /\ lastCall.res.exceptionError = "none"
    /\ lastCall.message.value = 1
    /\ ~lastCall.message.delegatecall
    /\ lastCall.message.to = NoAccount
    /\ Balance(world, NoAccount) = 1
    /\ Balance(world, Caller) = 0

\* the frame on top is a creation whose init code has just ended without an
\* error and returned code of an allowed size whose deposit, added to the
\* gas the init code used, exceeds the gas limit
CannotPayDeposit ==
    /\ phase = "running"
    /\ Len(frames') = Len(frames) - 1
    /\ Top.create
    /\ lastCall'.end # NotRun
    /\ lastCall'.end.err = "none"
    /\ Length(lastCall'.end.ret) <= MaxCodeSize
    /\ (Top.msg.gasLimit - lastCall'.end.gasLeft)
           + CreateData * Length(lastCall'.end.ret) > Top.msg.gasLimit

\* C36: on chainstart a creation that ran its init code and cannot pay the
\* code deposit ends with CODESTORE_OUT_OF_GAS and is committed: the refund,
\* the selfdestruct set, the created addresses and the logs of the frame
\* are in the result, the gas used is that of the init code, and an account
\* without code is at the created address; on a later hardfork it ends with
\* OUT_OF_GAS, consumes the gas limit and is reverted
CodestoreOutOfGas ==
    [][CannotPayDeposit =>
          IF hardfork = "chainstart"
          THEN /\ lastCall'.res.exceptionError = "CODESTORE_OUT_OF_GAS"
               /\ lastCall'.outcome = "committed"
               /\ Len(journal') = Len(journal) - 1
               /\ lastCall'.res.gasRefund = Top.gasRefund
               /\ lastCall'.res.selfdestruct = Top.selfdestruct
               /\ lastCall'.res.createdAddresses = Top.msg.createdAddresses
               /\ lastCall'.res.logs = Top.logs
               /\ lastCall'.res.executionGasUsed
                      = Top.msg.gasLimit - lastCall'.end.gasLeft
               /\ AcctKey(Top.msg.to) \in DOMAIN world'
               /\ world'[AcctKey(Top.msg.to)].code = "empty"
               /\ \A k \in DOMAIN world : k \in DOMAIN world' /\ world'[k] = world[k]
          ELSE /\ lastCall'.res.exceptionError = "OUT_OF_GAS"
               /\ lastCall'.outcome = "reverted"
               /\ Len(journal') = Len(journal) - 1
               /\ lastCall'.res.executionGasUsed = Top.msg.gasLimit
               /\ lastCall'.res.gasRefund = 0
               /\ lastCall'.res.logs = 0
               /\ world' = lastCall'.snap.w]_vars

\* a creation on chainstart that logged and earned a refund has ended with
\* CODESTORE_OUT_OF_GAS and keeps both
CodestoreOutOfGasWitness ==
    /\ hardfork = "chainstart"
    /\ lastCall.outcome = "committed"
    /\ lastCall.res.exceptionError = "CODESTORE_OUT_OF_GAS"
    /\ lastCall.res.logs + lastCall.res.gasRefund > 0
    /\ lastCall.res.executionGasUsed < lastCall.message.gasLimit

\* the init code of the creation that returned was longer than maxInitCodeSize
Oversized(message) == message.data = "oversized" \/ message.code = "oversized"

\* C35: with EIP-3860 and without allowUnlimitedInitCodeSize a creation with
\* init code longer than maxInitCodeSize returns INITCODE_SIZE_VIOLATION with
\* executionGasUsed equal to the gas limit, the init code has not run and
\* the state is the one at the frame's checkpoint; with the option, or
\* without the EIP, the creation runs its init code and no creation ever
\* returns INITCODE_SIZE_VIOLATION
InitCodeSizeLimit ==
    HasReturned =>
        /\ lastCall.res.exceptionError = "INITCODE_SIZE_VIOLATION" <=>
              /\ Oversized(lastCall.message)
              /\ Activated(3860)
              /\ ~allowUnlimitedInitCodeSize
        /\ lastCall.res.exceptionError = "INITCODE_SIZE_VIOLATION" =>
              /\ lastCall.res.executionGasUsed = lastCall.message.gasLimit
              /\ lastCall.end = NotRun
              /\ lastCall.outcome = "reverted"
              /\ world = lastCall.snap.w
        /\ (Oversized(lastCall.message)
               /\ lastCall.res.exceptionError # "INITCODE_SIZE_VIOLATION") =>
              /\ lastCall.end # NotRun
              /\ lastCall.message.code = "oversized"

\* with EIP-3860 and the option set the oversized init code ran and
\* deployed code
InitCodeSizeLimitWitness ==
    /\ HasReturned
    /\ Oversized(lastCall.message)
    /\ Activated(3860)
    /\ allowUnlimitedInitCodeSize
    /\ lastCall.res.exceptionError = "none"
    /\ lastCall.res.returnValue = "plain"
    /\ GetAccount(Machine, lastCall.message.to).code = "plain"

\* with EIP-3860 and without the option the creation was refused
InitCodeSizeRefused ==
    /\ HasReturned
    /\ lastCall.res.exceptionError = "INITCODE_SIZE_VIOLATION"
    /\ lastCall.outcome = "reverted"

\* the message that returned was a creation that came to its address
CreatedAt(message) == message.to = GenerateAddress(message.caller)

\* C33: a creation whose address holds an account with a nonce above 0 or
\* with code returns CREATE_COLLISION with executionGasUsed equal to the gas
\* limit; no init code has run, no code is stored, the frame is reverted,
\* and the account at the address and the caller's account are as they were
\* at the frame's checkpoint; no other creation returns CREATE_COLLISION
CreateCollision ==
    (HasReturned /\ CreatedAt(lastCall.message)) =>
        LET to == lastCall.message.to
            before == [Machine EXCEPT !.w = lastCall.snap.w]
            collision == GetAccount(before, to).nonce > 0
                             \/ GetAccount(before, to).code # "empty"
        IN  /\ collision <=> lastCall.res.exceptionError = "CREATE_COLLISION"
            /\ collision =>
                  /\ lastCall.res.executionGasUsed = lastCall.message.gasLimit
                  /\ lastCall.res.returnValue = "empty"
                  /\ lastCall.end = NotRun
                  /\ lastCall.outcome = "reverted"
                  /\ GetAccount(Machine, to) = GetAccount(before, to)
                  /\ GetAccount(Machine, lastCall.message.caller)
                         = GetAccount(before, lastCall.message.caller)
                  /\ GetSlot(Machine, to) = GetSlot(before, to)

\* the contract creates a second time at the address of its first creation,
\* which holds an account without code
CreateCollisionWitness ==
    /\ HasReturned
    /\ CreatedAt(lastCall.message)
    /\ lastCall.res.exceptionError = "CREATE_COLLISION"
    /\ lastCall.message.depth = 1
    /\ GetAccount(Machine, lastCall.message.to).nonce > 0
    /\ GetAccount(Machine, lastCall.message.to).code = "empty"

----------------------------------------------------------------------------
(* Calls on a Common and their answers: param, setEIPs, setHardfork,        *)
(* getHardforkBy, setHardforkBy                                             *)

\* block hardforks, two of them at one block, the merge, a timestamp hardfork
GlacierLike ==
    << HF("chainstart", 0, Undef, Undef),
       HF("byzantium", 1, Undef, Undef),
       HF("london", 2, Undef, Undef),
       HF("arrowGlacier", 3, Undef, Undef),
       HF("grayGlacier", 3, Undef, Undef),
       HF("paris", Null, Undef, 10),
       HF("shanghai", Null, 20, Undef) >>

\* block hardforks only, two of them at one block, and a hardfork that is
\* not scheduled yet
TiedLike ==
    << HF("chainstart", 0, Undef, Undef),
       HF("berlin", 2, Undef, Undef),
       HF("london", 2, Undef, Undef),
       HF("shanghai", 4, Undef, Undef),
       HF("cancun", Null, Undef, Undef) >>

\* a schedule in the manner of chains/sepolia.json: two hardforks at block
\* 0, a merge hardfork that carries a block and a TTD, a block hardfork after
\* the merge
SepoliaLike ==
    << HF("chainstart", 0, Undef, Undef),
       HF("london", 0, Undef, Undef),
       HF("paris", 3, Undef, 10),
       HF("mergeForkIdTransition", 4, Undef, Undef),
       HF("shanghai", Null, 20, Undef) >>

QuerySchedules == {MainnetLike, GoerliLike, GlacierLike, TiedLike, SepoliaLike}

\* the hardforks a Common of this part is constructed with or set to
QueryHardforks == {"chainstart", "london", "grayGlacier", "shanghai"}

\* the lists given to setEIPs: 3554 needs a hardfork no schedule has, 9999
\* is no EIP of eips/index.js
QueryEIPLists ==
    { <<>>, <<3540>>, <<3670>>, <<3540, 3670>>, <<4345, 5133>>, <<5133, 4345>>,
      <<1153>>, <<3554>>, <<9999>> }

\* the parameters asked for; "nosuch" is a name and "eth" a topic no file has
QueryParams ==
    { <<"pow", "difficultyBombDelay">>, <<"gasPrices", "sload">>,
      <<"gasPrices", "tstore">>, <<"vm", "maxInitCodeSize">>,
      <<"gasPrices", "nosuch">>, <<"eth", "sload">> }

\* an EVM without custom precompiles and opcodes
InitQueryTables ==
    /\ customPrecompiles = <<>>
    /\ customOpcodes = <<>>
    /\ allowUnlimitedInitCodeSize = FALSE
    /\ evmOpcodes = GetOpcodesForHF(schedule, hardfork, eips, customOpcodes)
    /\ evmPrecompiles = GetActivePrecompiles(schedule, hardfork, eips, customPrecompiles)

InitQuery ==
    /\ schedule \in QuerySchedules
    /\ hardfork \in QueryHardforks \cap {schedule[i].name : i \in DOMAIN schedule}
    /\ eips = <<>>
    /\ InitQueryTables
    /\ InitMachine
    /\ InitAux

\* common.param(topic, name)
AskParam(topic, name) ==
    /\ answer' = [op |-> "param", topic |-> topic, name |-> name,
                  result |-> Param(schedule, hardfork, eips, topic, name)]
    /\ UNCHANGED <<commonVars, tableVars, machineVars, forkHashes, copied, pending, pendingBlock>>

\* common.setEIPs(list)
AskSetEIPs(list) ==
    LET accepted == SetEIPsAccepts(schedule, hardfork, eips, list)
    IN  /\ eips' = IF accepted THEN list ELSE eips
        /\ answer' = [op |-> "setEIPs", list |-> list, before |-> eips,
                      thrown |-> ~accepted]
        /\ UNCHANGED <<schedule, hardfork, tableVars, machineVars, forkHashes, copied, pending, pendingBlock>>

\* common.setHardfork(name)
AskSetHardfork(name) ==
    /\ DoSetHardfork(name)
    /\ answer' = [op |-> "setHardfork", name |-> name]
    /\ UNCHANGED <<forkHashes, copied, pending, pendingBlock>>

----------------------------------------------------------------------------
(* Calls of getHardforkBy and setHardforkBy on a Common *)

\* the largest block number asked for
MaxBlock == 5

\* the block numbers, timestamps and total difficulties asked for
QueryBlocks == {Undef} \cup 0..MaxBlock
QueryTimestamps == {Undef, 5, 20, 25}
QueryTds == {Undef, 5, 10}

HardforkByAnswer(op, blockNumber, timestamp, td) ==
    [op |-> op, blockNumber |-> blockNumber, timestamp |-> timestamp, td |-> td,
     result |-> GetHardforkBy(schedule, blockNumber, timestamp, td)]

\* common.getHardforkBy({blockNumber, timestamp, td})
AskHardforkBy(blockNumber, timestamp, td) ==
    /\ answer' = HardforkByAnswer("getHardforkBy", blockNumber, timestamp, td)
    /\ UNCHANGED <<commonVars, tableVars, machineVars, forkHashes, copied, pending, pendingBlock>>

\* common.getHardforkBy({blockNumber}) for a block and for the next block
AskHardforkByTwice(blockNumber) ==
    /\ answer' = [op |-> "getHardforkByTwice", blockNumber |-> blockNumber,
                  result |-> GetHardforkBy(schedule, blockNumber, Undef, Undef),
                  next |-> GetHardforkBy(schedule, blockNumber + 1, Undef, Undef)]
    /\ UNCHANGED <<commonVars, tableVars, machineVars, forkHashes, copied, pending, pendingBlock>>

\* common.setHardforkBy({blockNumber, td})
AskSetHardforkBy(blockNumber, td) ==
    /\ answer' = HardforkByAnswer("setHardforkBy", blockNumber, Undef, td)
    /\ IF answer'.result.ok
       THEN DoSetHardfork(answer'.result.name)
       ELSE UNCHANGED <<commonVars, tableVars, machineVars>>
    /\ UNCHANGED <<forkHashes, copied, pending, pendingBlock>>

\* a Common that is asked for parameters and sees setEIPs, setHardfork and
\* setHardforkBy calls
NextQuery ==
    \/ \E p \in QueryParams : AskParam(p[1], p[2])
    \/ \E list \in QueryEIPLists : AskSetEIPs(list)
    \/ \E name \in QueryHardforks : AskSetHardfork(name)
    \/ \E b \in {0, MaxBlock} : AskSetHardforkBy(b, Undef)

SpecQuery == InitQuery /\ [][NextQuery]_vars

NextHardforkBy ==
    \/ \E b \in QueryBlocks, t \in QueryTimestamps, td \in QueryTds :
          AskHardforkBy(b, t, td)
    \/ \E b \in 0..MaxBlock : AskHardforkByTwice(b)
    \/ \E b \in 0..MaxBlock, td \in QueryTds : AskSetHardforkBy(b, td)

SpecHardforkBy == InitQuery /\ [][NextHardforkBy]_vars

----------------------------------------------------------------------------
(* Claims on the Common *)

\* the EIPs of the list that define the parameter
DefiningEIPs(list, topic, name) ==
    {k \in DOMAIN list : EIPParam(list[k], topic, name) # Undef}

\* the hardforks up to the current one that define the parameter, in their
\* file or in an EIP of their file
DefiningHardforks(topic, name) ==
    {i \in 1..PosOf(schedule, hardfork) :
        IF ReferencesEIPs(schedule[i].name)
        THEN DefiningEIPs(HardforkEIPList(schedule[i].name), topic, name) # {}
        ELSE HardforkParam(schedule[i].name, topic, name) # Undef}

Least(S) == CHOOSE x \in S : \A y \in S : x <= y
Greatest(S) == CHOOSE x \in S : \A y \in S : y <= x

ResolvedParam(topic, name) ==
    LET byEIP == DefiningEIPs(eips, topic, name)
        byHardfork == DefiningHardforks(topic, name)
        hf == schedule[Greatest(byHardfork)].name
        hfEIPs == HardforkEIPList(hf)
    IN  IF byEIP # {} THEN EIPParam(eips[Least(byEIP)], topic, name)
        ELSE IF byHardfork = {} THEN 0
        ELSE IF ReferencesEIPs(hf)
        THEN EIPParam(hfEIPs[Greatest(DefiningEIPs(hfEIPs, topic, name))], topic, name)
        ELSE HardforkParam(hf, topic, name)

SetEIPsRequirements ==
    answer.op = "setEIPs" =>
        IF answer.thrown
        THEN eips = answer.before
        ELSE /\ eips = answer.list
             /\ \A i \in DOMAIN eips :
                   /\ eips[i] \in KnownEIPs
                   /\ GteHardfork(schedule, hardfork, EIPMinimumHardfork(eips[i]))
                   /\ \A elem \in EIPRequired(eips[i]) :
                         IsActivatedEIP(schedule, hardfork, eips, elem)

\* every EIP of the list is one its Common could enable now
ActiveEIPsValid(hfs, hf, es) ==
    \A i \in DOMAIN es :
        /\ GteHardfork(hfs, hf, EIPMinimumHardfork(es[i]))
        /\ \A elem \in EIPRequired(es[i]) : IsActivatedEIP(hfs, hf, es, elem)

\* C39: after every setHardfork, setHardforkBy and setEIPs call on a Common
\* each EIP of the active list has its minimumHardfork at or before the
\* current hardfork and all its requiredEIPs active; a setHardfork with an
\* unknown name and a setEIPs with a refused list change neither the
\* hardfork nor the list and rebuild no table
ActiveEIPsStayValid ==
    [][/\ ActiveEIPsValid(schedule', hardfork', eips')
       /\ \A name \in QueryHardforks :
             (AskSetHardfork(name) /\ PosOf(schedule, name) = 0) =>
                 UNCHANGED <<hardfork, eips, evmOpcodes, evmPrecompiles>>
       /\ \A list \in QueryEIPLists :
             (AskSetEIPs(list) /\ ~SetEIPsAccepts(schedule, hardfork, eips, list)) =>
                 UNCHANGED <<hardfork, eips, evmOpcodes, evmPrecompiles>>]_vars

\* the hardforks getHardforkBy selects from
AppliedHardforks == SelectSeq(schedule, Applied)

\* every scheduled hardfork activates by block number, the first at block 0
BlockSchedule ==
    /\ \A i \in DOMAIN AppliedHardforks :
          /\ AppliedHardforks[i].block # Null
          /\ AppliedHardforks[i].timestamp = Undef
          /\ AppliedHardforks[i].ttd = Undef
    /\ AppliedHardforks[1].block = 0

\* the call asked with a block number only
ByBlockOnly(a) ==
    /\ a.op \in {"getHardforkBy", "setHardforkBy"}
    /\ a.blockNumber # Undef /\ a.timestamp = Undef /\ a.td = Undef

LastActivatedAt(n) ==
    AppliedHardforks[Greatest({i \in DOMAIN AppliedHardforks :
                                 AppliedHardforks[i].block <= n})].name

\* C13: on a schedule of block hardforks starting at block 0,
\* getHardforkBy({blockNumber: n}) is the last hardfork of the schedule
\* whose block is <= n; on chainstart@0, berlin@2, london@3 that is
\* chainstart for 0 and 1, berlin for 2, london for 3 and 4; setHardforkBy
\* sets that hardfork
HardforkByBlock ==
    (ByBlockOnly(answer) /\ BlockSchedule) =>
        /\ answer.result = Returned(LastActivatedAt(answer.blockNumber))
        /\ answer.op = "setHardforkBy" => hardfork = LastActivatedAt(answer.blockNumber)
        /\ (schedule = GoerliLike /\ answer.blockNumber <= 4) =>
              answer.result.name =
                  CASE answer.blockNumber \in {0, 1} -> "chainstart"
                    [] answer.blockNumber = 2 -> "berlin"
                    [] answer.blockNumber \in {3, 4} -> "london"

\* setHardforkBy({blockNumber: 2}) has set berlin on chainstart@0, berlin@2,
\* london@3
HardforkByBlockWitness ==
    /\ schedule = GoerliLike
    /\ answer.op = "setHardforkBy"
    /\ ByBlockOnly(answer)
    /\ answer.blockNumber = 2
    /\ hardfork = "berlin"

\* C14: when getHardforkBy({blockNumber: n}) and getHardforkBy({blockNumber:
\* n + 1}) both return, the second hardfork is at the same or a later
\* position of the schedule than the first
HardforkMonotonicity ==
    (answer.op = "getHardforkByTwice" /\ answer.result.ok /\ answer.next.ok) =>
        PosOf(schedule, answer.next.name) >= PosOf(schedule, answer.result.name)

\* the two calls returned different hardforks
HardforkMonotonicityWitness ==
    /\ answer.op = "getHardforkByTwice"
    /\ answer.result.ok /\ answer.next.ok
    /\ PosOf(schedule, answer.next.name) > PosOf(schedule, answer.result.name)

\* the hardforks that activate after the block or the timestamp asked for
LaterHardforks(a) ==
    {i \in DOMAIN AppliedHardforks :
        \/ /\ a.blockNumber # Undef
           /\ AppliedHardforks[i].block # Null
           /\ AppliedHardforks[i].block > a.blockNumber
        \/ /\ a.timestamp # Undef
           /\ AppliedHardforks[i].timestamp # Undef
           /\ AppliedHardforks[i].timestamp > a.timestamp}

\* the hardforks the selection can land on: those before the first later
\* one, without the timestamp hardforks when no timestamp is given
Reached(a) ==
    LET upper == IF LaterHardforks(a) = {} THEN Len(AppliedHardforks)
                 ELSE Least(LaterHardforks(a)) - 1
    IN  {i \in 1..upper :
            \/ a.timestamp # Undef
            \/ AppliedHardforks[i].block # Null
            \/ AppliedHardforks[i].ttd # Undef}

\* the positions of the hardforks with a TTD
MergePositions == {i \in DOMAIN AppliedHardforks : HasTTD(AppliedHardforks[i])}

\* the hardfork carries a TTD and neither block nor timestamp
MergeOnly(hf) == HasTTD(hf) /\ hf.block = Null /\ hf.timestamp = Undef

HardforkMismatch ==
    { Thrown("Maximum HF determined by total difficulty is lower than the block number HF"),
      Thrown("HF determined by block number is lower than the minimum total difficulty HF") }

AsksHardforkBy(a) == a.op \in {"getHardforkBy", "setHardforkBy"}

\* C15: when the selection lands on the merge hardfork (a TTD, no block, no
\* timestamp), getHardforkBy returns the merge hardfork if td is given and
\* td >= TTD and the hardfork before it otherwise; when it lands elsewhere
\* and the td given contradicts it (at or after the merge with td < TTD,
\* before the merge with td >= TTD) it fails with a hardfork mismatch
MergeByTotalDifficulty ==
    (AsksHardforkBy(answer) /\ Reached(answer) # {} /\ MergePositions # {}) =>
        LET landed == Greatest(Reached(answer))
            merge == Least(MergePositions)
            ttd == AppliedHardforks[merge].ttd
        IN  IF MergeOnly(AppliedHardforks[landed])
            THEN answer.result =
                    IF answer.td # Undef /\ answer.td >= ttd
                    THEN Returned(AppliedHardforks[landed].name)
                    ELSE Returned(AppliedHardforks[landed - 1].name)
            ELSE (/\ answer.td # Undef
                  /\ \/ landed >= merge /\ answer.td < ttd
                     \/ landed < merge /\ answer.td >= ttd)
                 => answer.result \in HardforkMismatch

\* the selection landed on the merge hardfork and the td given reached the TTD
MergeByTotalDifficultyWitness ==
    /\ AsksHardforkBy(answer)
    /\ Reached(answer) # {}
    /\ MergeOnly(AppliedHardforks[Greatest(Reached(answer))])
    /\ answer.td = 10
    /\ answer.result = Returned("paris")

----------------------------------------------------------------------------
(* Calls of forkHash and setForkHashes on a Common whose chain gains        *)
(* hardforks                                                                *)

\* the genesis hash of mainnet
MainnetGenesis ==
    << 212, 229, 103, 64, 248, 118, 174, 248, 192, 16, 184, 106, 64, 213, 245, 103,
       69, 161, 24, 208, 144, 106, 52, 230, 154, 236, 140, 13, 177, 203, 143, 163 >>

GenesisHashes == {Given(MainnetGenesis), NotGiven}

ForkHashSchedules == {GlacierLike, SepoliaLike, TiedLike}

\* the hardforks whose fork hash is asked for
ForkHashNames == {"london", "grayGlacier", "paris", "shanghai", "cancun"}

\* a Common on the first hardforks of a chain
InitForkHash ==
    /\ \E full \in ForkHashSchedules :
          schedule \in {SubSeq(full, 1, k) : k \in 1..Len(full)}
    /\ hardfork = "chainstart"
    /\ eips = <<>>
    /\ InitQueryTables
    /\ InitMachine
    /\ InitAux

\* common.forkHash(hf, genesisHash)
AskForkHash(hf, genesisHash) ==
    /\ answer' = [op |-> "forkHash", hardfork |-> hf, genesisHash |-> genesisHash,
                  length |-> Len(schedule), preset |-> hf \in DOMAIN forkHashes,
                  result |-> ForkHash(schedule, forkHashes, hf, genesisHash)]
    /\ UNCHANGED <<commonVars, tableVars, machineVars, forkHashes, copied, pending, pendingBlock>>

\* lines 830-838: the loop over the hardforks from entry i on
RECURSIVE SetForkHashesLoop(_, _, _, _)
SetForkHashesLoop(hfs, presets, genesisHash, i) ==
    IF i > Len(hfs) THEN presets
    ELSE LET blockOrTime == BlockOrTime(hfs[i])
             missing == /\ hfs[i].name \notin DOMAIN presets
                        /\ blockOrTime # Null \/ hfs[i].ttd # Undef
         IN  SetForkHashesLoop(hfs,
                 IF missing
                 THEN (hfs[i].name :> ForkHash(hfs, presets, hfs[i].name, genesisHash).name)
                      @@ presets
                 ELSE presets,
                 genesisHash, i + 1)

\* common.setForkHashes(genesisHash)
SetForkHashes(genesisHash) ==
    /\ forkHashes' = SetForkHashesLoop(schedule, forkHashes, genesisHash, 1)
    /\ answer' = [op |-> "setForkHashes", genesisHash |-> genesisHash]
    /\ UNCHANGED <<commonVars, tableVars, machineVars, copied, pending, pendingBlock>>

\* the chain schedules its next hardfork
AddHardfork ==
    /\ \E full \in ForkHashSchedules :
          /\ Len(schedule) < Len(full)
          /\ SubSeq(full, 1, Len(schedule)) = schedule
          /\ schedule' = Append(schedule, full[Len(schedule) + 1])
    /\ UNCHANGED <<hardfork, eips, tableVars, machineVars, auxVars>>

NextForkHash ==
    \/ \E hf \in ForkHashNames, g \in GenesisHashes : AskForkHash(hf, g)
    \/ SetForkHashes(Given(MainnetGenesis))
    \/ AddHardfork

SpecForkHash == InitForkHash /\ [][NextForkHash]_vars

----------------------------------------------------------------------------
(* Claims on the fork hash *)

\* the activation point of a hardfork: its timestamp if set, else its block
ActivationPoint(hf) == IF hf.timestamp # Undef THEN hf.timestamp ELSE hf.block

\* the hardforks among the first i whose activation point is hashed: after
\* genesis, not the merge, not at the point of the one included before
RECURSIVE IncludedUpTo(_, _)
IncludedUpTo(hfs, i) ==
    IF i = 0 THEN {}
    ELSE LET before == IncludedUpTo(hfs, i - 1)
             point == ActivationPoint(hfs[i])
         IN  IF /\ point # Null
                /\ point > 0
                /\ ~HasTTD(hfs[i])
                /\ before = {} \/ ActivationPoint(hfs[Greatest(before)]) # point
             THEN before \cup {i}
             ELSE before

RECURSIVE ActivationBytes(_, _, _)
ActivationBytes(hfs, included, i) ==
    IF i > Len(hfs) THEN <<>>
    ELSE (IF i \in included THEN Be8(ActivationPoint(hfs[i])) ELSE <<>>)
         \o ActivationBytes(hfs, included, i + 1)

\* the CRC-32 of the bytes as four bytes
Crc32Bits(bytes) ==
    Xor32(Crc32Update(<<255, 255, 255, 255>>, bytes, 1), <<255, 255, 255, 255>>)

\* forkHash was asked for a scheduled hardfork without a preset fork hash
AskedCalculatedForkHash ==
    /\ answer.op = "forkHash"
    /\ ~answer.preset
    /\ answer.genesisHash.given
    /\ PosOf(SubSeq(schedule, 1, answer.length), answer.hardfork) # 0
    /\ Applied(schedule[PosOf(schedule, answer.hardfork)])

\* C16: without a preset, forkHash(hf, genesisHash) is the unsigned 4-byte
\* CRC32 of the genesis hash followed by the 8-byte big-endian activation
\* points of the scheduled hardforks after genesis up to and including hf,
\* without the merge hardfork and without a hardfork at the activation
\* point of the one included before it
ForkHashInput ==
    AskedCalculatedForkHash =>
        LET pos == PosOf(schedule, answer.hardfork)
            hfs == SubSeq(schedule, 1, pos)
            bytes == answer.genesisHash.bytes \o ActivationBytes(hfs, IncludedUpTo(hfs, pos), 1)
        IN  answer.result = Returned(BytesToHex(Crc32Bits(bytes)))

\* a fork hash was calculated over two activation points, past a hardfork
\* that shares its block with the one before and past the merge
ForkHashInputWitness ==
    /\ AskedCalculatedForkHash
    /\ schedule = GlacierLike
    /\ answer.hardfork = "shanghai"
    /\ answer.result.ok
    /\ Len(answer.result.name) = 8

\* C17: forkHash(hf, genesisHash) does not change when later hardforks are
\* added to the schedule
ForkHashStability ==
    (answer.op = "forkHash" /\ answer.result.ok) =>
        ForkHash(schedule, forkHashes, answer.hardfork, answer.genesisHash) = answer.result

\* a fork hash was calculated and the chain has scheduled a further
\* hardfork with a new activation point since
ForkHashStabilityWitness ==
    /\ AskedCalculatedForkHash
    /\ Len(schedule) > answer.length
    /\ IncludedUpTo(schedule, Len(schedule)) # IncludedUpTo(schedule, answer.length)

----------------------------------------------------------------------------
(* A Common and its copy *)

CopySchedules == {TiedLike, SepoliaLike}
CopyHardforks == {"chainstart", "london"}
CopyEIPLists == {<<>>, <<1153>>}
Instances == {"original", "copy"}

Other(inst) == IF inst = "original" THEN "copy" ELSE "original"

InitCopy ==
    /\ schedule \in CopySchedules
    /\ hardfork \in CopyHardforks
    /\ eips = <<>>
    /\ InitQueryTables
    /\ InitMachine
    /\ InitAux

\* common.copy(): Object.assign gives the new object the fields of this one,
\* that is the same _chainParams and the values of _hardfork and _eips, and
\* the new object gets an EventEmitter of its own, without listeners
Copy ==
    /\ ~copied.made
    /\ copied' = [made |-> TRUE, hardfork |-> hardfork, eips |-> eips]
    /\ answer' = [op |-> "copy", on |-> "original", notified |-> {}]
    /\ UNCHANGED <<commonVars, tableVars, machineVars, forkHashes, pending, pendingBlock>>

\* setHardfork(name) on the original or on the copy; the listeners of the
\* EVM are registered on the events of the original
CopySetHardfork(inst, name) ==
    IF inst = "original"
    THEN /\ DoSetHardfork(name)
         /\ answer' = [op |-> "setHardfork", on |-> inst,
                       notified |-> IF SetHardforkEmits(schedule, hardfork, name)
                                    THEN {inst} ELSE {}]
         /\ UNCHANGED <<forkHashes, copied, pending, pendingBlock>>
    ELSE /\ copied.made
         /\ copied' = [copied EXCEPT
                          !.hardfork = SetHardforkValue(schedule, copied.hardfork, name)]
         /\ answer' = [op |-> "setHardfork", on |-> inst,
                       notified |-> IF SetHardforkEmits(schedule, copied.hardfork, name)
                                    THEN {inst} ELSE {}]
         /\ UNCHANGED <<commonVars, tableVars, machineVars, forkHashes, pending, pendingBlock>>

\* setEIPs(list) on the original or on the copy
CopySetEIPs(inst, list) ==
    IF inst = "original"
    THEN /\ eips' = IF SetEIPsAccepts(schedule, hardfork, eips, list) THEN list ELSE eips
         /\ answer' = [op |-> "setEIPs", on |-> inst, notified |-> {}]
         /\ UNCHANGED <<schedule, hardfork, tableVars, machineVars, forkHashes, copied, pending, pendingBlock>>
    ELSE /\ copied.made
         /\ copied' = [copied EXCEPT
                          !.eips = IF SetEIPsAccepts(schedule, copied.hardfork,
                                                     copied.eips, list)
                                   THEN list ELSE copied.eips]
         /\ answer' = [op |-> "setEIPs", on |-> inst, notified |-> {}]
         /\ UNCHANGED <<commonVars, tableVars, machineVars, forkHashes, pending, pendingBlock>>

\* setForkHashes(genesisHash) on the original or on the copy: the entries it
\* writes to are those of the one _chainParams
CopySetForkHashes(inst, genesisHash) ==
    /\ inst = "copy" => copied.made
    /\ forkHashes' = SetForkHashesLoop(schedule, forkHashes, genesisHash, 1)
    /\ answer' = [op |-> "setForkHashes", on |-> inst, notified |-> {}]
    /\ UNCHANGED <<commonVars, tableVars, machineVars, copied, pending, pendingBlock>>

\* the timestamp a hardfork is scheduled at through hardforks()
ScheduledAt == 30

\* common.hardforks()[i].timestamp = ScheduledAt, for a hardfork that had
\* no activation point, on the original or on the copy
CopyScheduleEntry(inst, i) ==
    /\ inst = "copy" => copied.made
    /\ i \in DOMAIN schedule
    /\ ~Applied(schedule[i])
    /\ schedule' = [schedule EXCEPT ![i].timestamp = ScheduledAt]
    /\ answer' = [op |-> "scheduleEntry", on |-> inst, notified |-> {}]
    /\ UNCHANGED <<hardfork, eips, tableVars, machineVars, forkHashes, copied, pending, pendingBlock>>

NextCopy ==
    \/ Copy
    \/ \E inst \in Instances, name \in CopyHardforks : CopySetHardfork(inst, name)
    \/ \E inst \in Instances, list \in CopyEIPLists : CopySetEIPs(inst, list)
    \/ \E inst \in Instances : CopySetForkHashes(inst, Given(MainnetGenesis))
    \/ \E inst \in Instances, i \in 1..5 : CopyScheduleEntry(inst, i)

SpecCopy == InitCopy /\ [][NextCopy]_vars

----------------------------------------------------------------------------
(* Claims on the copy of a Common *)

\* what hardfork(), eips(), hardforks() and forkHash() return on an instance
QueriesOf(inst) ==
    LET hf == IF inst = "original" THEN hardfork ELSE copied.hardfork
    IN  [hardfork |-> hf,
         eips |-> IF inst = "original" THEN eips ELSE copied.eips,
         hardforks |-> schedule,
         forkHashes |-> forkHashes,
         forkHash |-> ForkHash(schedule, forkHashes, hf, NotGiven)]

Mutations == {"setHardfork", "setEIPs", "setForkHashes", "scheduleEntry"}

\* C18: after copy(), a setHardfork, setEIPs, setForkHashes or change of a
\* schedule entry made through one of the two instances leaves every query
\* result of the other instance as it was, and notifies no hardforkChanged
\* listener of the other instance
CopyIsDeep ==
    [][ (copied.made /\ answer'.op \in Mutations) =>
            \A inst \in Instances :
                answer'.on = inst =>
                    /\ QueriesOf(Other(inst))' = QueriesOf(Other(inst))
                    /\ answer'.notified \subseteq {inst} ]_vars

----------------------------------------------------------------------------
(* PendingBlock: the assembly of a block from the transactions of the pool  *)
(* Gas is counted in thousands.                                             *)

\* the gas of a plain value transfer, below which no transaction fits
MinTxGas == 21

\* the most transactions one sender has in the pool
MaxPoolTxs == 3

\* the most blobs the blob transactions of one block may carry
LIMIT_BLOBS_PER_BLOCK == 6

Senders == {"A", "B"}

\* the gas limits of the blocks: room for two transfers, the block of the
\* miner test, the genesis gas limit of the miner tests
BlockGasLimits == {50, 100, 4700}

\* a transaction without blobs, on the hardfork of the block
Plain(gasLimit, data) ==
    [gasLimit |-> gasLimit, data |-> data, blobs |-> 0, blobData |-> FALSE,
     mismatch |-> "none"]

\* a blob transaction; blobData tells whether the pool holds its blobs
Blob(blobs, blobData) == [Plain(25, "transfer") EXCEPT !.blobs = blobs, !.blobData = blobData]

\* a transfer whose Common is on another hardfork than the block; the VM
\* can still execute it, or cannot
Mismatching(how) == [Plain(25, "transfer") EXCEPT !.mismatch = how]

\* a value transfer, and a call of code that is the INVALID opcode
TxKinds == { Plain(25, "transfer"), Plain(99, "invalid") }

\* transfers and blob transactions: three blobs, six blobs, one blob whose
\* data the pool does not have
BlobKinds == { Plain(25, "transfer"), Blob(3, TRUE), Blob(6, TRUE), Blob(1, FALSE) }

MismatchKinds == { Plain(25, "transfer"), Mismatching("executable"),
                   Mismatching("incompatible") }

GasPrices == {2, 4, 6}

Priced(kind, p) ==
    [gasPrice |-> p, gasLimit |-> kind.gasLimit, data |-> kind.data, blobs |-> kind.blobs,
     blobData |-> kind.blobData, mismatch |-> kind.mismatch]

TxShapes == { Priced(k, p) : p \in GasPrices, k \in TxKinds }

\* the transactions of one sender in the pool, by nonce
TxsOf(from, shapes, firstNonce) ==
    [i \in DOMAIN shapes |->
        [from |-> from, nonce |-> firstNonce + i - 1, gasPrice |-> shapes[i].gasPrice,
         gasLimit |-> shapes[i].gasLimit, data |-> shapes[i].data,
         blobs |-> shapes[i].blobs, blobData |-> shapes[i].blobData,
         mismatch |-> shapes[i].mismatch]]

\* what B has in the pool: nothing, or one transfer
TxsOfB ==
    { <<>> } \cup { TxsOf("B", <<Priced(Plain(25, "transfer"), p)>>, 0) : p \in {4, 5} }

FirstNonces == {0, 1}

\* the sequences of at most MaxPoolTxs elements of S
UpToMaxPoolTxs(S) == UNION { [1..n -> S] : n \in 0..MaxPoolTxs }

PoolOf(ofA, ofB) == [s \in Senders |-> IF s = "A" THEN ofA ELSE ofB]

\* what start() is given: the pool, the parent's gas limit, the hardfork of
\* the block, the option skipHardForkValidation, the senders with a balance
Input(pool, gasLimit, hf, skip, funded) ==
    [pool |-> pool, gasLimit |-> gasLimit, hardfork |-> hf,
     skipHardForkValidation |-> skip, funded |-> funded]

\* transfers and INVALID calls at all prices, in blocks of all sizes
GasInputs ==
    { Input(PoolOf(TxsOf("A", shapes, 0), ofB), gasLimit, "berlin", TRUE, Senders) :
          shapes \in UpToMaxPoolTxs(TxShapes), ofB \in TxsOfB,
          gasLimit \in BlockGasLimits }

\* the first transaction of A at the nonce of the account, or one above it
NonceInputs ==
    { Input(PoolOf(TxsOf("A", shapes, first), ofB), 4700, "berlin", TRUE, Senders) :
          shapes \in UpToMaxPoolTxs({Priced(k, 4) : k \in TxKinds}),
          first \in FirstNonces, ofB \in TxsOfB }

\* blob transactions on cancun
BlobInputs ==
    { Input(PoolOf(TxsOf("A", shapes, 0), ofB), 4700, "cancun", FALSE, Senders) :
          shapes \in UpToMaxPoolTxs({Priced(k, 4) : k \in BlobKinds}),
          ofB \in {<<>>, TxsOf("B", <<Priced(Blob(3, TRUE), 5)>>, 0)} }

\* transactions on another hardfork, with and without skipHardForkValidation
MismatchInputs ==
    { Input(PoolOf(TxsOf("A", shapes, 0), <<>>), 4700, "berlin", skip, Senders) :
          shapes \in UpToMaxPoolTxs({Priced(k, 4) : k \in MismatchKinds}),
          skip \in BOOLEAN }

\* a sender without a balance
UnfundedInputs ==
    { Input(PoolOf(TxsOf("A", shapes, 0), ofB), 4700, "berlin", TRUE, {"B"}) :
          shapes \in UpToMaxPoolTxs({Priced(k, 4) : k \in TxKinds}),
          ofB \in TxsOfB \cup {TxsOf("B", <<Priced(Plain(99, "invalid"), 5)>>, 0)} }

AssemblyInputs ==
    GasInputs \cup NonceInputs \cup BlobInputs \cup MismatchInputs \cup UnfundedInputs

\* the transactions of a pool
TxsIn(pool) == UNION { Range(pool[s]) : s \in Senders }

NoBundle == [blobs |-> <<>>, commitments |-> <<>>, proofs |-> <<>>]

\* a payload right after start(): nothing included yet
Started(in) ==
    [status |-> "building", pool |-> in.pool, head |-> [s \in Senders |-> 1],
     gasLimit |-> in.gasLimit, gasRemaining |-> in.gasLimit, gasUsed |-> 0,
     nonce |-> [s \in Senders |-> 0],
     transactions |-> <<>>, receipts |-> <<>>, popped |-> <<>>,
     hardfork |-> in.hardfork, skipHardForkValidation |-> in.skipHardForkValidation,
     funded |-> in.funded, blobsRemaining |-> LIMIT_BLOBS_PER_BLOCK,
     blobsBundle |-> NoBundle, inPool |-> TxsIn(in.pool), signal |-> FALSE, put |-> 0]

InitAssemble ==
    /\ schedule = GoerliLike
    /\ hardfork = "berlin"
    /\ eips = <<>>
    /\ InitQueryTables
    /\ InitMachine
    /\ answer = NoAnswer
    /\ forkHashes = EmptyMap
    /\ copied = NoCopy
    /\ pendingBlock = NoPendingBlock
    /\ \E in \in AssemblyInputs : pending = Started(in)

\* the effective tip of a transaction; these are legacy transactions on a
\* block without a base fee
EffectiveTip(tx) == tx.gasPrice

\* the senders that still have a head transaction
ReadyHeads(p) == {s \in Senders : p.head[s] <= Len(p.pool[s])}

HeadTx(p, s) == p.pool[s][p.head[s]]

\* a choice of the head with the lowest effective tip
WorstHeads(p) ==
    {s \in ReadyHeads(p) :
        \A o \in ReadyHeads(p) : EffectiveTip(HeadTx(p, s)) <= EffectiveTip(HeadTx(p, o))}

\* the top of the heap: a head with the highest effective tip
BestHeads(p) ==
    {s \in ReadyHeads(p) :
        \A o \in ReadyHeads(p) : EffectiveTip(HeadTx(p, o)) <= EffectiveTip(HeadTx(p, s))}

\* a check that lets every transaction into the block
TooBigNever(tx, gasRemaining) == FALSE

\* step 2: the transaction does not fit
TooBig(tx, gasRemaining) == tx.gasLimit > gasRemaining

\* a check that lets every blob transaction into the block
TooManyBlobsNever(tx, blobsRemaining) == FALSE

\* step 2: a blob transaction with more blobs than the block has room for
TooManyBlobs(tx, blobsRemaining) == tx.blobs > blobsRemaining

\* a blob transaction whose blobs the pool does not have
MissingBlobs(tx) == tx.blobs > 0 /\ ~tx.blobData

\* step 2: the hardfork of the transaction differs from the block's and the
\* transaction cannot be executed under the block's rules
Incompatible(p, tx) == ~p.skipHardForkValidation /\ tx.mismatch = "incompatible"

\* an execution in which the INVALID opcode leaves the gas of the message
GasUsedByIntrinsic(tx) == MinTxGas

\* the gas a transaction uses: a transfer MinTxGas, the INVALID opcode all
GasUsedBy(tx) == IF tx.data = "invalid" THEN tx.gasLimit ELSE MinTxGas

\* a verdict that takes a transaction whatever nonce the sender is at
VerdictAnyNonce(p, tx) ==
    IF TooBig(tx, p.gasRemaining) THEN "gas"
    ELSE IF TooManyBlobs(tx, p.blobsRemaining) THEN "blobs"
    ELSE IF MissingBlobs(tx) THEN "missing blobs"
    ELSE IF Incompatible(p, tx) THEN "hardfork"
    ELSE IF tx.from \notin p.funded THEN "funds"
    ELSE "ok"

\* why the transaction popped from the heap is not included, or "ok"
Verdict(p, tx) ==
    IF TooBig(tx, p.gasRemaining) THEN "gas"
    ELSE IF TooManyBlobs(tx, p.blobsRemaining) THEN "blobs"
    ELSE IF MissingBlobs(tx) THEN "missing blobs"
    ELSE IF Incompatible(p, tx) THEN "hardfork"
    ELSE IF tx.nonce # p.nonce[tx.from] THEN "nonce"
    ELSE IF tx.from \notin p.funded THEN "funds"
    ELSE "ok"

\* a pool that loses the transactions that were skipped
FateEvicts(verdict) == IF verdict = "ok" THEN "included" ELSE "dropped"

\* what becomes of the transaction: steps 2 and 3
Fate(verdict) ==
    IF verdict \in {"gas", "blobs", "missing blobs", "hardfork"} THEN "skipped"
    ELSE IF verdict \in {"nonce", "funds"} THEN "dropped"
    ELSE "included"

FateOf(p, tx) == Fate(Verdict(p, tx))

\* the parts of the sidecar that a blob transaction brings
PartsOf(tx, part) ==
    [k \in 1..tx.blobs |-> [part |-> part, from |-> tx.from, nonce |-> tx.nonce, index |-> k]]

\* the receipt of an included transaction; status 0 when its code failed
ReceiptOf(tx) ==
    [gasUsed |-> GasUsedBy(tx), status |-> IF tx.data = "invalid" THEN 0 ELSE 1]

\* one round of the loop on payload p: the head of sender s is popped and
\* skipped, dropped or included
AddTransactionTo(p, s) ==
    LET tx == HeadTx(p, s)
        verdict == Verdict(p, tx)
        fate == Fate(verdict)
        used == GasUsedBy(tx)
        seen == [tx |-> tx, gasRemaining |-> p.gasRemaining,
                 blobsRemaining |-> p.blobsRemaining,
                 tips |-> {EffectiveTip(HeadTx(p, o)) : o \in ReadyHeads(p)},
                 verdict |-> verdict, fate |-> fate]
        advanced == [p EXCEPT !.head[s] = @ + 1,
                              !.popped = Append(@, seen)]
    IN  IF fate = "included"
        THEN [advanced EXCEPT !.transactions = Append(@, tx),
                              !.receipts = Append(@, ReceiptOf(tx)),
                              !.gasRemaining = @ - used,
                              !.gasUsed = @ + used,
                              !.blobsRemaining = @ - tx.blobs,
                              !.blobsBundle =
                                  [blobs |-> @.blobs \o PartsOf(tx, "blob"),
                                   commitments |-> @.commitments \o PartsOf(tx, "commitment"),
                                   proofs |-> @.proofs \o PartsOf(tx, "proof")],
                              !.nonce[s] = @ + 1]
        ELSE IF fate = "dropped"
        THEN [advanced EXCEPT !.inPool = @ \ {tx}]
        ELSE advanced

\* the loop goes on: there is gas for a transaction and a head to pop
LoopRuns(p) == p.gasRemaining >= MinTxGas /\ ReadyHeads(p) # {}

\* an assembler that never looks at the signal
ObservesNever(p) == FALSE

\* the assembler looks at the chain-updated signal between two transactions
Observes(p) == p.signal

\* one round of the loop
AddTransaction(s) ==
    /\ pending.status = "building"
    /\ ~Observes(pending)
    /\ pending.gasRemaining >= MinTxGas
    /\ s \in BestHeads(pending)
    /\ pending' = AddTransactionTo(pending, s)
    /\ UNCHANGED <<commonVars, tableVars, machineVars, answer, forkHashes, copied, pendingBlock>>

\* header.ts 332: the block used too much gas
TooMuchGasUsed(gasUsed, gasLimit) == gasUsed > gasLimit

\* the loop has ended (heap empty or block full): the block is built
Build ==
    /\ pending.status = "building"
    /\ ~Observes(pending)
    /\ ~LoopRuns(pending)
    /\ pending' = [pending EXCEPT
                      !.status = IF TooMuchGasUsed(pending.gasUsed, pending.gasLimit)
                                 THEN "invalid" ELSE "built"]
    /\ UNCHANGED <<commonVars, tableVars, machineVars, answer, forkHashes, copied, pendingBlock>>

\* stop(payloadId): the cancellation
Stop ==
    /\ pending.status = "building"
    /\ pending' = [pending EXCEPT !.status = "stopped"]
    /\ UNCHANGED <<commonVars, tableVars, machineVars, answer, forkHashes, copied, pendingBlock>>

\* the chain has a new block: Event.CHAIN_UPDATED reaches the miner
ChainUpdated ==
    /\ pending.status \in {"building", "built"}
    /\ ~pending.signal
    /\ pending' = [pending EXCEPT !.signal = TRUE]
    /\ UNCHANGED <<commonVars, tableVars, machineVars, answer, forkHashes, copied, pendingBlock>>

\* the assembler has seen the signal and gives the assembly up
Interrupt ==
    /\ pending.status \in {"building", "built"}
    /\ Observes(pending)
    /\ pending' = [pending EXCEPT !.status = "interrupted"]
    /\ UNCHANGED <<commonVars, tableVars, machineVars, answer, forkHashes, copied, pendingBlock>>

\* the miner puts the block it has built to the chain
PutBlocks ==
    /\ pending.status = "built"
    /\ ~Observes(pending)
    /\ pending' = [pending EXCEPT !.status = "put", !.put = @ + 1]
    /\ UNCHANGED <<commonVars, tableVars, machineVars, answer, forkHashes, copied, pendingBlock>>

NextAssemble ==
    \/ \E s \in Senders : AddTransaction(s)
    \/ Build
    \/ Stop
    \/ ChainUpdated
    \/ Interrupt
    \/ PutBlocks

SpecAssemble == InitAssemble /\ [][NextAssemble]_vars

-----------------------------------------------------------------------------
(* PendingBlock: start, build, stop and pruneSetToMax on pendingPayloads *)

\* what identifies a payload: the parent block and the timestamp of start()
PayloadAttributes == {[parent |-> 1, timestamp |-> 10], [parent |-> 1, timestamp |-> 12]}

\* the payload id: a digest of the parent's hash and the attributes
PayloadIdOf(attributes) == (attributes.parent * 31 + attributes.timestamp) % 256

PayloadIds == {PayloadIdOf(a) : a \in PayloadAttributes} \cup {0}

\* the most calls of build() on one payload id
MaxBuilds == 2

\* the most calls on the PendingBlock and its pool in one run
MaxCalls == 6

\* the gas limit of the blocks of this PendingBlock: room for two transfers
PayloadGasLimit == 50

\* the most transactions a sender sends to the pool
MaxArrivals(s) == IF s = "A" THEN MaxPoolTxs ELSE 1

\* the transactions that reach the pool: A pays 4 and B pays 5 for gas
Arrivals == { Priced(k, 4) : k \in TxKinds }

NoCall == [call |-> "none", id |-> 0, known |-> FALSE]

InitPayload ==
    /\ schedule = GoerliLike
    /\ hardfork = "berlin"
    /\ eips = <<>>
    /\ InitQueryTables
    /\ InitMachine
    /\ answer = NoAnswer
    /\ forkHashes = EmptyMap
    /\ copied = NoCopy
    /\ pending = NoPending
    /\ pendingBlock = [made |-> TRUE,
                       txPool |-> [s \in Senders |-> <<>>],
                       added |-> [s \in Senders |-> 0],
                       pendingPayloads |-> EmptyMap,
                       keys |-> <<>>,
                       serial |-> 0,
                       calls |-> 0,
                       serials |-> EmptyMap,
                       removed |-> {},
                       builds |-> EmptyMap,
                       last |-> NoCall]

\* the payloads a run of the loop to its end can leave, from payload p
RECURSIVE AddTransactions(_)
AddTransactions(p) ==
    IF LoopRuns(p)
    THEN UNION { AddTransactions(AddTransactionTo(p, s)) : s \in BestHeads(p) }
    ELSE {p}

\* the pool without the transactions that an assembly dropped
Without(txPool, p) ==
    [s \in Senders |-> SelectSeq(txPool[s], LAMBDA tx : tx \in p.inPool)]

\* a build that does not look at the pool again
NewTxsNone(txPool, p) == [s \in Senders |-> <<>>]

\* the transactions of the pool that are not yet in payload p
NewTxs(txPool, p) ==
    [s \in Senders |-> SelectSeq(txPool[s], LAMBDA tx : tx \notin Range(p.transactions))]

\* payload p with the heap made anew from the pool
Refreshed(txPool, p) ==
    [p EXCEPT !.pool = NewTxs(txPool, p),
              !.head = [s \in Senders |-> 1],
              !.popped = <<>>,
              !.inPool = TxsIn(txPool)]

\* pendingPayloads.set(k, v)
Put(m, k, v) == [x \in DOMAIN m \cup {k} |-> IF x = k THEN v ELSE m[x]]

\* a stop() that leaves the payload in pendingPayloads
DeleteNothing(m, k) == m

\* pendingPayloads.delete(k)
Delete(m, k) == [x \in DOMAIN m \ {k} |-> m[x]]

\* TxPool.add: the next transaction of sender s
TxPoolAdd(s, shape) ==
    /\ pendingBlock.made
    /\ pendingBlock.calls < MaxCalls
    /\ pendingBlock.added[s] < MaxArrivals(s)
    /\ LET pool == pendingBlock.txPool
           price == IF s = "A" THEN shape.gasPrice ELSE shape.gasPrice + 1
           nonce == IF pool[s] = <<>> THEN 0 ELSE pool[s][Len(pool[s])].nonce + 1
           tx == TxsOf(s, <<Priced(shape, price)>>, nonce)[1]
       IN  pendingBlock' = [pendingBlock EXCEPT
                               !.txPool[s] = Append(@, tx),
                               !.added[s] = @ + 1,
                               !.calls = pendingBlock.calls + 1,
                           !.last = [call |-> "add", id |-> 0, known |-> FALSE]]
    /\ UNCHANGED <<commonVars, tableVars, machineVars, answer, forkHashes, copied, pending>>

\* start(vm, parentBlock, attributes): the payload id; a payload that was
\* started before is not started again
StartPayload(attributes) ==
    /\ pendingBlock.made
    /\ pendingBlock.calls < MaxCalls
    /\ LET id == PayloadIdOf(attributes)
           before == pendingBlock.pendingPayloads
           called == [call |-> "start", id |-> id, known |-> id \in DOMAIN before]
       IN  IF id \in DOMAIN before
           THEN pendingBlock' = [pendingBlock EXCEPT !.calls = pendingBlock.calls + 1,
                           !.last = called]
           ELSE \E p \in AddTransactions(
                            Started(Input(pendingBlock.txPool, PayloadGasLimit, "berlin",
                                          TRUE, Senders))) :
                    pendingBlock' = [pendingBlock EXCEPT
                        !.pendingPayloads = Put(@, id, p),
                        !.keys = Append(@, id),
                        !.serial = @ + 1,
                        !.serials = Put(@, id, pendingBlock.serial + 1),
                        !.txPool = Without(@, p),
                        !.builds = Put(@, id, <<p.transactions>>),
                        !.calls = pendingBlock.calls + 1,
                           !.last = called]
    /\ UNCHANGED <<commonVars, tableVars, machineVars, answer, forkHashes, copied, pending>>

\* build(payloadId): the block of the payload with the transactions that
\* the pool has received since
BuildPayload(id) ==
    /\ pendingBlock.made
    /\ pendingBlock.calls < MaxCalls
    /\ LET before == pendingBlock.pendingPayloads
           called == [call |-> "build", id |-> id, known |-> id \in DOMAIN before]
       IN  IF id \notin DOMAIN before
           THEN pendingBlock' = [pendingBlock EXCEPT !.calls = pendingBlock.calls + 1,
                           !.last = called]
           ELSE /\ Len(pendingBlock.builds[id]) <= MaxBuilds
                /\ \E p \in AddTransactions(Refreshed(pendingBlock.txPool, before[id])) :
                       pendingBlock' = [pendingBlock EXCEPT
                           !.pendingPayloads[id] = [p EXCEPT !.status = "built"],
                           !.txPool = Without(@, p),
                           !.builds[id] = Append(@, p.transactions),
                           !.calls = pendingBlock.calls + 1,
                           !.last = called]
    /\ UNCHANGED <<commonVars, tableVars, machineVars, answer, forkHashes, copied, pending>>

\* the PendingBlock after stop(payloadId)
Stopped(pb, id) ==
    IF id \notin DOMAIN pb.pendingPayloads
    THEN pb
    ELSE [pb EXCEPT !.pendingPayloads = Delete(@, id),
                    !.keys = SelectSeq(@, LAMBDA k : k # id),
                    !.removed = @ \cup {pb.serials[id]}]

\* stop(payloadId)
StopPayload(id) ==
    /\ pendingBlock.made
    /\ pendingBlock.calls < MaxCalls
    /\ pendingBlock' = [Stopped(pendingBlock, id) EXCEPT
                           !.calls = pendingBlock.calls + 1,
                           !.last = [call |-> "stop", id |-> id,
                                     known |-> id \in DOMAIN pendingBlock.pendingPayloads]]
    /\ UNCHANGED <<commonVars, tableVars, machineVars, answer, forkHashes, copied, pending>>

\* the PendingBlock after the oldest payloads are stopped until maxItems are left
RECURSIVE Pruned(_, _)
Pruned(pb, maxItems) ==
    IF Len(pb.keys) <= maxItems THEN pb ELSE Pruned(Stopped(pb, pb.keys[1]), maxItems)

\* pruneSetToMax(maxItems)
PruneSetToMax(maxItems) ==
    /\ pendingBlock.made
    /\ pendingBlock.calls < MaxCalls
    /\ pendingBlock' = [Pruned(pendingBlock, maxItems) EXCEPT
                           !.calls = pendingBlock.calls + 1,
                           !.last = [call |-> "prune", id |-> maxItems, known |-> FALSE]]
    /\ UNCHANGED <<commonVars, tableVars, machineVars, answer, forkHashes, copied, pending>>

NextPayload ==
    \/ \E s \in Senders, shape \in Arrivals : TxPoolAdd(s, shape)
    \/ \E a \in PayloadAttributes : StartPayload(a)
    \/ \E id \in PayloadIds : BuildPayload(id)
    \/ \E id \in PayloadIds : StopPayload(id)
    \/ \E maxItems \in {0, 1} : PruneSetToMax(maxItems)

SpecPayload == InitPayload /\ [][NextPayload]_vars

-----------------------------------------------------------------------------
(* BlockHeader: the base fee and the gas limit across the London block *)

\* part_001 436-442: the first entry of the schedule with this name
GetHardfork(hfs, name) == FindIndex(hfs, LAMBDA hf : hf.name = name) + 1

\* part_001 651-658: the block of a hardfork, Null when it has none
HardforkBlock(hfs, name) ==
    LET i == GetHardfork(hfs, name)
    IN  IF i = 0 THEN Null
        ELSE IF hfs[i].block \in {Null, Undef} THEN Null ELSE hfs[i].block

\* common.param('gasConfig', name) of a Common on hardfork hf without EIPs
GasConfig(hfs, hf, name) == Param(hfs, hf, <<>>, "gasConfig", name).name

HeaderData(number, gasLimit, gasUsed, baseFeePerGas) ==
    [number |-> number, gasLimit |-> gasLimit, gasUsed |-> gasUsed,
     baseFeePerGas |-> baseFeePerGas]

\* header.ts 187-199: the hardfork of the header's Common; with the option
\* setHardfork it is the hardfork of the header's number
HeaderHardfork(hfs, hf, number, setHardfork) ==
    IF setHardfork
    THEN LET got == GetHardforkBy(hfs, number, number, Undef)
         IN  IF got.ok THEN got.name ELSE hf
    ELSE hf

\* header.ts 202-216: the base fee of a header that is given none
BaseFeeDefault(hfs, hf, number) ==
    IF IsActivatedEIP(hfs, hf, <<>>, 1559)
    THEN IF number = HardforkBlock(hfs, "london")
         THEN GasConfig(hfs, hf, "initialBaseFee")
         ELSE 7
    ELSE Undef

\* a validation that takes any base fee at the London block
GenericFormatValidationAnyBaseFee(h, hfs) ==
    IF TooMuchGasUsed(h.gasUsed, h.gasLimit) THEN "Invalid block: too much gas used"
    ELSE "none"

\* header.ts 331-354: the error _genericFormatValidation throws, or "none"
GenericFormatValidation(h, hfs) ==
    IF TooMuchGasUsed(h.gasUsed, h.gasLimit) THEN "Invalid block: too much gas used"
    ELSE IF IsActivatedEIP(hfs, h.hardfork, <<>>, 1559)
    THEN IF h.baseFeePerGas = Undef THEN "EIP1559 block has no base fee field"
         ELSE LET londonHfBlock == HardforkBlock(hfs, "london")
              IN  IF /\ londonHfBlock # Null
                     /\ londonHfBlock # 0
                     /\ h.number = londonHfBlock
                     /\ h.baseFeePerGas # GasConfig(hfs, h.hardfork, "initialBaseFee")
                  THEN "Initial EIP1559 block does not have initial base fee"
                  ELSE "none"
    ELSE "none"

\* header.ts 138-262: new BlockHeader(headerData, {common, setHardfork}), with
\* the error the constructor throws, or "none"
BlockHeader(headerData, hfs, hf, setHardfork) ==
    LET own == HeaderHardfork(hfs, hf, headerData.number, setHardfork)
        baseFeePerGas == IF headerData.baseFeePerGas # Undef
                         THEN headerData.baseFeePerGas
                         ELSE BaseFeeDefault(hfs, own, headerData.number)
        h == [number |-> headerData.number, gasLimit |-> headerData.gasLimit,
              gasUsed |-> headerData.gasUsed, baseFeePerGas |-> baseFeePerGas,
              hardfork |-> own]
    IN  [header |-> h,
         error |-> IF ~IsActivatedEIP(hfs, own, <<>>, 1559) /\ baseFeePerGas # Undef
                   THEN "A base fee for a block can only be set with EIP1559 being activated"
                   ELSE GenericFormatValidation(h, hfs)]

\* header.ts 465-502: the error validateGasLimit throws, or "none"
ValidateGasLimit(h, parentBlockHeader, hfs) ==
    LET londonHardforkBlock == HardforkBlock(hfs, "london")
        parentGasLimit ==
            IF /\ londonHardforkBlock # Null
               /\ londonHardforkBlock # 0
               /\ h.number = londonHardforkBlock
            THEN parentBlockHeader.gasLimit * GasConfig(hfs, h.hardfork, "elasticityMultiplier")
            ELSE parentBlockHeader.gasLimit
        a == parentGasLimit \div
                 ParamByHardfork(hfs, "gasConfig", "gasLimitBoundDivisor", h.hardfork)
        maxGasLimit == parentGasLimit + a
        minGasLimit == parentGasLimit - a
    IN  IF h.gasLimit >= maxGasLimit THEN "gas limit increased too much"
        ELSE IF h.gasLimit <= minGasLimit THEN "gas limit decreased too much"
        ELSE IF h.gasLimit < ParamByHardfork(hfs, "gasConfig", "minGasLimit", h.hardfork)
        THEN "gas limit decreased below minimum gas limit"
        ELSE "none"

Computed(nextBaseFee) == [thrown |-> FALSE, nextBaseFee |-> nextBaseFee]

CannotCalc == [thrown |-> TRUE, nextBaseFee |-> Undef]

\* a calculation that lets the base fee stay when the rise rounds to 0
CalcNextBaseFeeNoMinimum(h, hfs) ==
    IF ~IsActivatedEIP(hfs, h.hardfork, <<>>, 1559) THEN CannotCalc
    ELSE LET parentGasTarget == h.gasLimit \div GasConfig(hfs, h.hardfork, "elasticityMultiplier")
             denominator == GasConfig(hfs, h.hardfork, "baseFeeMaxChangeDenominator")
         IN  IF parentGasTarget = h.gasUsed THEN Computed(h.baseFeePerGas)
             ELSE IF h.gasUsed > parentGasTarget
             THEN Computed(((h.baseFeePerGas * (h.gasUsed - parentGasTarget))
                               \div parentGasTarget) \div denominator + h.baseFeePerGas)
             ELSE LET calculatedDelta ==
                          ((h.baseFeePerGas * (parentGasTarget - h.gasUsed))
                              \div parentGasTarget) \div denominator
                  IN  Computed(IF h.baseFeePerGas - calculatedDelta > 0
                               THEN h.baseFeePerGas - calculatedDelta ELSE 0)

\* header.ts 507-546: calcNextBaseFee()
CalcNextBaseFee(h, hfs) ==
    IF ~IsActivatedEIP(hfs, h.hardfork, <<>>, 1559) THEN CannotCalc
    ELSE LET elasticity == GasConfig(hfs, h.hardfork, "elasticityMultiplier")
             parentGasTarget == h.gasLimit \div elasticity
             baseFeeMaxChangeDenominator ==
                 GasConfig(hfs, h.hardfork, "baseFeeMaxChangeDenominator")
         IN  IF parentGasTarget = h.gasUsed THEN Computed(h.baseFeePerGas)
             ELSE IF h.gasUsed > parentGasTarget
             THEN LET gasUsedDelta == h.gasUsed - parentGasTarget
                      calculatedDelta ==
                          ((h.baseFeePerGas * gasUsedDelta) \div parentGasTarget)
                              \div baseFeeMaxChangeDenominator
                  IN  Computed((IF calculatedDelta > 1 THEN calculatedDelta ELSE 1)
                                   + h.baseFeePerGas)
             ELSE LET gasUsedDelta == parentGasTarget - h.gasUsed
                      calculatedDelta ==
                          ((h.baseFeePerGas * gasUsedDelta) \div parentGasTarget)
                              \div baseFeeMaxChangeDenominator
                  IN  Computed(IF h.baseFeePerGas - calculatedDelta > 0
                               THEN h.baseFeePerGas - calculatedDelta ELSE 0)

\* the largest base fee of a parent header in the model
MaxBaseFee == 20

\* the gas limits of the parent headers: even, odd, and the least a chain allows
ParentGasLimits == {16, 17, 5000}

\* the gas a parent header has used: none, the target, twice the target,
\* and values in between
GasUsedOf(gasLimit) ==
    {0, gasLimit \div 4, gasLimit \div 2, gasLimit \div 2 + 1, 2 * (gasLimit \div 2)}

\* the parent headers: headers of block 4 that the constructor accepts
ParentHeaders ==
    { b.header : b \in
        { c \in { BlockHeader(HeaderData(4, gasLimit, gasUsed, baseFee), GoerliLike, hf, FALSE) :
                      gasLimit \in ParentGasLimits,
                      gasUsed \in UNION {GasUsedOf(g) : g \in ParentGasLimits},
                      baseFee \in 0..MaxBaseFee \cup {Undef},
                      hf \in {"berlin", "london"} } :
              c.error = "none" } }

InitBaseFee ==
    /\ schedule = GoerliLike
    /\ hardfork = "london"
    /\ eips = <<>>
    /\ InitQueryTables
    /\ InitMachine
    /\ forkHashes = EmptyMap
    /\ copied = NoCopy
    /\ pending = NoPending
    /\ pendingBlock = NoPendingBlock
    /\ \E h \in ParentHeaders :
           answer = [op |-> "header", header |-> h, called |-> FALSE,
                     result |-> CannotCalc]

\* header.calcNextBaseFee()
AskCalcNextBaseFee ==
    /\ answer.op = "header"
    /\ ~answer.called
    /\ answer' = [answer EXCEPT !.called = TRUE,
                                !.result = CalcNextBaseFee(answer.header, schedule)]
    /\ UNCHANGED <<commonVars, tableVars, machineVars, forkHashes, copied, pending, pendingBlock>>

NextBaseFee == AskCalcNextBaseFee

SpecBaseFee == InitBaseFee /\ [][NextBaseFee]_vars

-----------------------------------------------------------------------------
(* Miner: blocks assembled one after another across the London block *)

\* the most headers of a chain, the genesis header included
MaxChain == 5

\* where the custom chains have London: at the genesis block, at block 2,
\* at block 3 (the chain of the miner test)
LondonBlocks == {0, 2, 3}

LondonAt(block) ==
    IF block = 0
    THEN << HF("chainstart", 0, Undef, Undef), HF("london", 0, Undef, Undef) >>
    ELSE << HF("chainstart", 0, Undef, Undef), HF("berlin", block - 1, Undef, Undef),
            HF("london", block, Undef, Undef) >>

GenesisGasLimits == {5000, 8192}

\* how much of its gas limit a block uses
Fills == {"empty", "target", "full"}

GasUsedAt(fill, gasLimit) ==
    IF fill = "empty" THEN 0 ELSE IF fill = "target" THEN gasLimit \div 2 ELSE gasLimit

\* the base fees of the headers that reach the chain from outside
BaseFees == {Undef, 7, InitialBaseFee, InitialBaseFee + 1}

GenesisHeader(hfs, gasLimit) ==
    BlockHeader(HeaderData(0, gasLimit, 0, Undef), hfs, "chainstart", TRUE).header

InitChain ==
    /\ \E block \in LondonBlocks, gasLimit \in GenesisGasLimits :
          /\ schedule = LondonAt(block)
          /\ hardfork = GenesisHeader(schedule, gasLimit).hardfork
          /\ answer = [op |-> "chain", chain |-> <<GenesisHeader(schedule, gasLimit)>>,
                       last |-> [call |-> "none", number |-> 0, baseFeePerGas |-> Undef,
                                 error |-> "none"]]
    /\ eips = <<>>
    /\ InitQueryTables
    /\ InitMachine
    /\ forkHashes = EmptyMap
    /\ copied = NoCopy
    /\ pending = NoPending
    /\ pendingBlock = NoPendingBlock

\* the gas limit and the base fee the miner gives the block after parent:
\* at the London block the initial base fee and twice the parent's gas
\* limit, after it the parent's calcNextBaseFee()
NextHeaderData(parent, hfs, hf, gasUsed) ==
    LET number == parent.number + 1
        londonHardforkBlock == HardforkBlock(hfs, "london")
        atLondon == /\ londonHardforkBlock # Null
                    /\ londonHardforkBlock # 0
                    /\ number = londonHardforkBlock
    IN  HeaderData(number,
                   IF atLondon THEN parent.gasLimit * 2 ELSE parent.gasLimit,
                   gasUsed,
                   IF atLondon THEN ParamByEIP("gasConfig", "initialBaseFee", 1559)
                   ELSE IF IsActivatedEIP(hfs, hf, <<>>, 1559)
                   THEN CalcNextBaseFee(parent, hfs).nextBaseFee
                   ELSE Undef)

\* Miner.assembleBlock: the next block is built on the head of the chain,
\* validated and put to the chain; the Common follows the chain
AssembleBlock(fill) ==
    /\ answer.op = "chain"
    /\ Len(answer.chain) < MaxChain
    /\ \E parent \in {answer.chain[Len(answer.chain)]} :
       \E targeted \in {NextHeaderData(parent, schedule, hardfork, 0)} :
       \E headerData \in {[targeted EXCEPT !.gasUsed = GasUsedAt(fill, targeted.gasLimit)]} :
       \E built \in {BlockHeader(headerData, schedule, hardfork, TRUE)} :
       \E error \in {IF built.error # "none" THEN built.error
                     ELSE ValidateGasLimit(built.header, parent, schedule)} :
       \E got \in {GetHardforkBy(schedule, headerData.number, headerData.number, Undef)} :
           /\ answer' = [answer EXCEPT
                            !.chain = IF error = "none" THEN Append(@, built.header) ELSE @,
                            !.last = [call |-> "assemble", number |-> headerData.number,
                                      baseFeePerGas |-> headerData.baseFeePerGas,
                                      error |-> error]]
           /\ IF error = "none" /\ got.ok
              THEN DoSetHardfork(got.name)
              ELSE UNCHANGED commonVars /\ UNCHANGED tableVars /\ UNCHANGED machineVars
    /\ UNCHANGED <<forkHashes, copied, pending, pendingBlock>>

\* a header for the block after the head is constructed from data of another
\* node, with the Common as it is or with the option setHardfork
ReceiveHeader(baseFeePerGas, setHardfork) ==
    /\ answer.op = "chain"
    /\ Len(answer.chain) < MaxChain
    /\ \E parent \in {answer.chain[Len(answer.chain)]} :
       \E targeted \in {NextHeaderData(parent, schedule, hardfork, 0)} :
       \E headerData \in {[targeted EXCEPT !.baseFeePerGas = baseFeePerGas]} :
       \E built \in {BlockHeader(headerData, schedule, hardfork, setHardfork)} :
           answer' = [answer EXCEPT
                         !.last = [call |-> "header", number |-> headerData.number,
                                   baseFeePerGas |-> baseFeePerGas,
                                   error |-> built.error]]
    /\ UNCHANGED <<commonVars, tableVars, machineVars, forkHashes, copied, pending, pendingBlock>>

NextChain ==
    \/ \E fill \in Fills : AssembleBlock(fill)
    \/ \E baseFeePerGas \in BaseFees, setHardfork \in BOOLEAN :
           ReceiveHeader(baseFeePerGas, setHardfork)

SpecChain == InitChain /\ [][NextChain]_vars

-----------------------------------------------------------------------------
(* BlobEIP4844Transaction: the construction of a blob transaction *)

\* TransactionType.BlobEIP4844
BlobEIP4844 == 3

\* tx/src/constants.ts: the most blobs of one transaction
LIMIT_BLOBS_PER_TX == 6

\* a versioned hash: its length in bytes, its first byte and what follows it;
\* the bytes after the first are those of the digest of commitment 1 unless
\* said otherwise
HashOf(length, first, body) == [length |-> length, first |-> first, body |-> body]

VersionedHash(length, first) == HashOf(length, first, 1)

\* a well-formed hash, a short one, one with another version byte
HashKinds == {VersionedHash(32, 1), VersionedHash(31, 1), VersionedHash(32, 0)}

\* the lists of versioned hashes: well-formed ones, from none up to one more
\* than the limit, and the lists of one or two hashes of all kinds
HashLists ==
    { [i \in 1..n |-> VersionedHash(32, 1)] : n \in 0..(LIMIT_BLOBS_PER_TX + 1) }
        \cup UNION { [1..n -> HashKinds] : n \in 1..2 }

\* the receivers: none (a contract creation), an address
Tos == {Undef, Contract}

\* the fields of a transaction that the model follows: one of its integers
\* (the nonce), the receiver, the versioned hashes and the signature values
TxData(nonce, to, versionedHashes, v, r, s) ==
    [nonce |-> nonce, to |-> to, versionedHashes |-> versionedHashes,
     v |-> v, r |-> r, s |-> s]

\* an unsigned transaction of nonce 0
BlobTxData(to, versionedHashes) == TxData(0, to, versionedHashes, Undef, Undef, Undef)

NoTx == BlobTxData(Undef, <<>>)

Constructed(tx) == [error |-> "none", tx |-> tx]

Rejected(msg) == [error |-> msg, tx |-> NoTx]

\* eip4844Transaction.ts 160-171: the first versioned hash that is refused
RECURSIVE VerifyHashes(_, _)
VerifyHashes(versionedHashes, i) ==
    IF i > Len(versionedHashes) THEN "none"
    ELSE IF versionedHashes[i].length # 32 THEN "versioned hash is invalid length"
    ELSE IF versionedHashes[i].first # ParamByEIP("sharding", "blobCommitmentVersionKzg", 4844)
    THEN "versioned hash does not start with KZG commitment version"
    ELSE VerifyHashes(versionedHashes, i + 1)

\* eip4844Transaction.ts 105-184: new BlobEIP4844Transaction(txData, {common});
\* the fields of BaseTransaction are kept as they are given
BlobEIP4844Transaction(txData, hfs, hf, es) ==
    IF ~IsActivatedEIP(hfs, hf, es, 1559) THEN Rejected("EIP-1559 not enabled on Common")
    ELSE IF ~IsActivatedEIP(hfs, hf, es, 4844) THEN Rejected("EIP-4844 not enabled on Common")
    ELSE IF txData.v \notin {Undef, 0, 1}
    THEN Rejected("The y-parity of the transaction should either be 0 or 1")
    ELSE IF VerifyHashes(txData.versionedHashes, 1) # "none"
    THEN Rejected(VerifyHashes(txData.versionedHashes, 1))
    ELSE IF Len(txData.versionedHashes) > LIMIT_BLOBS_PER_TX
    THEN Rejected("tx can contain at most LIMIT_BLOBS_PER_TX blobs")
    ELSE Constructed(txData)

(* the codec: raw(), serialize(), getMessageToSign() and their inverse *)

\* the one element of a set of one element
Only(S) == CHOOSE x \in S : TRUE

\* an item of RLP: a string of bytes or a list of items
B(bytes) == [k |-> "b", v |-> bytes]

L(items) == [k |-> "l", v |-> items]

\* util: bigIntToUnpaddedBytes, the bytes of n without leading zeros (none for 0)
RECURSIVE BigIntToPaddedBytes(_)
BigIntToPaddedBytes(n) ==
    IF n < 256 THEN <<n>> ELSE Append(BigIntToPaddedBytes(n \div 256), n % 256)

RECURSIVE BigIntToUnpaddedBytes(_)
BigIntToUnpaddedBytes(n) ==
    IF n = 0 THEN <<>> ELSE Append(BigIntToUnpaddedBytes(n \div 256), n % 256)

\* util: bytesToBigInt, 0 for no bytes
RECURSIVE BytesToBigInt(_)
BytesToBigInt(bytes) ==
    IF bytes = <<>> THEN 0
    ELSE BytesToBigInt(SubSeq(bytes, 1, Len(bytes) - 1)) * 256 + bytes[Len(bytes)]

\* the 20 bytes of an address and the address of 20 bytes
AddressBytes(address) == [i \in 1..20 |-> IF i = 20 THEN address ELSE 0]

AddressOf(bytes) == bytes[20]

\* the bytes of a versioned hash and the versioned hash of the bytes
HashBytes(hash) == [i \in 1..hash.length |-> IF i = 1 THEN hash.first ELSE hash.body]

HashOfBytes(bytes) == HashOf(Len(bytes), bytes[1], bytes[2])

\* RLP.encode: the prefix of a payload of len bytes
EncodeLength(len, offset) ==
    IF len <= 55 THEN <<offset + len>>
    ELSE <<offset + 55 + Len(BigIntToUnpaddedBytes(len))>> \o BigIntToUnpaddedBytes(len)

RECURSIVE RlpEncode(_)
RECURSIVE RlpEncodeAll(_)
RlpEncodeAll(items) ==
    IF items = <<>> THEN <<>> ELSE RlpEncode(Head(items)) \o RlpEncodeAll(Tail(items))

RlpEncode(item) ==
    IF item.k = "b"
    THEN IF Len(item.v) = 1 /\ item.v[1] < 128 THEN item.v
         ELSE EncodeLength(Len(item.v), 128) \o item.v
    ELSE Only({ EncodeLength(Len(payload), 192) \o payload :
                    payload \in {RlpEncodeAll(item.v)} })

\* RLP.decode: the first item of the bytes and the bytes after it
RECURSIVE RlpDecodeItem(_)
RECURSIVE RlpDecodeAll(_)
RlpDecodeAll(bytes) ==
    IF bytes = <<>> THEN <<>>
    ELSE Only({ <<d.item>> \o RlpDecodeAll(d.rest) : d \in {RlpDecodeItem(bytes)} })

\* the item whose payload of len bytes begins after from bytes
RlpPayload(bytes, from, len, list) ==
    [item |-> IF list THEN L(RlpDecodeAll(SubSeq(bytes, from + 1, from + len)))
              ELSE B(SubSeq(bytes, from + 1, from + len)),
     rest |-> SubSeq(bytes, from + len + 1, Len(bytes))]

RlpDecodeItem(bytes) ==
    LET first == bytes[1]
    IN  IF first < 128 THEN [item |-> B(<<first>>), rest |-> Tail(bytes)]
        ELSE IF first <= 183 THEN RlpPayload(bytes, 1, first - 128, FALSE)
        ELSE IF first <= 191
        THEN RlpPayload(bytes, 1 + (first - 183),
                        BytesToBigInt(SubSeq(bytes, 2, 1 + (first - 183))), FALSE)
        ELSE IF first <= 247 THEN RlpPayload(bytes, 1, first - 192, TRUE)
        ELSE RlpPayload(bytes, 1 + (first - 247),
                        BytesToBigInt(SubSeq(bytes, 2, 1 + (first - 247))), TRUE)

RlpDecode(bytes) == RlpDecodeItem(bytes).item

\* the chain id of the Common
ChainId == 1

\* an integer that may be undefined, as raw() gives it
OptionalBytes(n) == IF n = Undef THEN <<>> ELSE BigIntToUnpaddedBytes(n)

\* eip4844Transaction.ts 403-420: raw(); the fees, the gas limit and the value
\* are 0, the data and the access list are empty
Raw(tx) ==
    << B(BigIntToUnpaddedBytes(ChainId)),
       B(BigIntToUnpaddedBytes(tx.nonce)),
       B(<<>>), B(<<>>), B(<<>>),
       B(IF tx.to # Undef THEN AddressBytes(tx.to) ELSE <<>>),
       B(<<>>),
       B(<<>>),
       L(<<>>),
       B(<<>>),
       L([i \in DOMAIN tx.versionedHashes |-> B(HashBytes(tx.versionedHashes[i]))]),
       B(OptionalBytes(tx.v)),
       B(OptionalBytes(tx.r)),
       B(OptionalBytes(tx.s)) >>

\* eip4844Transaction.ts 432-435: serialize()
Serialize(tx) == <<BlobEIP4844>> \o RlpEncode(L(Raw(tx)))

\* eip4844Transaction.ts 469-473: getMessageToSign()
GetMessageToSign(tx) == <<BlobEIP4844>> \o RlpEncode(L(SubSeq(Raw(tx), 1, 11)))

\* util: validateNoLeadingZeroes on the integers of the values
HasLeadingZeroes(values) ==
    \E i \in {2, 3, 4, 5, 7, 10, 12, 13, 14} \cap DOMAIN values :
        values[i].v # <<>> /\ values[i].v[1] = 0

\* an integer of the signature: BaseTransaction takes no bytes for undefined
OptionalBigInt(bytes) == IF bytes = <<>> THEN Undef ELSE BytesToBigInt(bytes)

\* eip4844Transaction.ts 266-312: the fields that fromValuesArray hands to
\* the constructor
ValuesToTxData(values) ==
    TxData(BytesToBigInt(values[2].v),
           IF values[6].v = <<>> THEN Undef ELSE AddressOf(values[6].v),
           [i \in DOMAIN values[11].v |-> HashOfBytes(values[11].v[i].v)],
           IF Len(values) = 14 THEN BytesToBigInt(values[12].v) ELSE Undef,
           IF Len(values) = 14 THEN OptionalBigInt(values[13].v) ELSE Undef,
           IF Len(values) = 14 THEN OptionalBigInt(values[14].v) ELSE Undef)

\* the values array of a transaction of length values with the fields txData
ValuesOf(length, txData) == SubSeq(Raw(txData), 1, length)

\* eip4844Transaction.ts 260-316: fromValuesArray(values, {common})
FromValuesArray(values, hfs, hf, es) ==
    IF Len(values) # 11 /\ Len(values) # 14
    THEN Rejected("Invalid EIP-4844 transaction. Only expecting 11 values or 14 values")
    ELSE IF HasLeadingZeroes(values) THEN Rejected("cannot have leading zeroes")
    ELSE BlobEIP4844Transaction(ValuesToTxData(values), hfs, hf, es)

\* eip4844Transaction.ts 236-252: fromSerializedTx(serialized, {common})
FromSerializedTx(serialized, hfs, hf, es) ==
    IF SubSeq(serialized, 1, 1) # <<BlobEIP4844>>
    THEN Rejected("Invalid serialized tx input: not an EIP-4844 transaction")
    ELSE Only({ IF values.k # "l" THEN Rejected("Invalid serialized tx input: must be array")
                ELSE FromValuesArray(values.v, hfs, hf, es) :
                    values \in {RlpDecode(Tail(serialized))} })

\* the answers of the KZG library to verifyBlobKzgProofBatch
KzgVerdicts == {"valid", "invalid", "throws"}

\* kzg.verifyBlobKzgProofBatch(blobs, commitments, kzgProofs): the library
\* refuses lists of different lengths (verify_blob_kzg_proof_batch asserts
\* that they are equal) and otherwise gives its verdict on the proofs
VerifyBlobKzgProofBatch(blobs, commitments, kzgProofs, verdict) ==
    IF blobs # Len(commitments) \/ Len(commitments) # kzgProofs THEN "throws" ELSE verdict

\* computeVersionedHash(commitment, version): the version byte followed by
\* the digest of the commitment without its first byte; a commitment is
\* named by a number and so is its digest
ComputeVersionedHash(commitment, version) == HashOf(32, version, commitment)

\* eip4844Transaction.ts 46-76: validateBlobTransactionNetworkWrapper;
\* blobs and kzgProofs are the numbers of blobs and of proofs
RECURSIVE FirstMismatch(_, _, _, _)
FirstMismatch(versionedHashes, commitments, version, x) ==
    IF x > Len(versionedHashes) THEN 0
    ELSE IF ComputeVersionedHash(commitments[x], version) # versionedHashes[x] THEN x
    ELSE FirstMismatch(versionedHashes, commitments, version, x + 1)

ValidateSkipsHashes(versionedHashes, blobs, commitments, kzgProofs, verdict, version) ==
    IF ~(Len(versionedHashes) = blobs /\ blobs = Len(commitments))
    THEN "Number of versionedHashes, blobs, and commitments not all equal"
    ELSE IF Len(versionedHashes) = 0 THEN "Invalid transaction with empty blobs"
    ELSE IF VerifyBlobKzgProofBatch(blobs, commitments, kzgProofs, verdict) = "throws"
    THEN "KZG verification of blobs fail with error"
    ELSE IF VerifyBlobKzgProofBatch(blobs, commitments, kzgProofs, verdict) # "valid"
    THEN "KZG proof cannot be verified from blobs/commitments"
    ELSE "none"

ValidateBlobTransactionNetworkWrapper(versionedHashes, blobs, commitments, kzgProofs, verdict, version) ==
    IF ~(Len(versionedHashes) = blobs /\ blobs = Len(commitments))
    THEN "Number of versionedHashes, blobs, and commitments not all equal"
    ELSE IF Len(versionedHashes) = 0 THEN "Invalid transaction with empty blobs"
    ELSE IF VerifyBlobKzgProofBatch(blobs, commitments, kzgProofs, verdict) = "throws"
    THEN "KZG verification of blobs fail with error"
    ELSE IF VerifyBlobKzgProofBatch(blobs, commitments, kzgProofs, verdict) # "valid"
    THEN "KZG proof cannot be verified from blobs/commitments"
    ELSE IF FirstMismatch(versionedHashes, commitments, version, 1) # 0
    THEN "commitment for blob does not match versionedHash"
    ELSE "none"

\* the serialized network wrapper: its type byte, the number of values of
\* its list, the values of the transaction (their number and the fields the
\* model follows), the numbers of blobs and proofs, the commitments, and
\* what the KZG library says of them
Wrapper(type, values, length, txData, blobs, commitments, kzgProofs, verdict) ==
    [type |-> type, values |-> values, length |-> length, txData |-> txData,
     blobs |-> blobs, commitments |-> commitments, kzgProofs |-> kzgProofs,
     verdict |-> verdict]

\* eip4844Transaction.ts 325-376: fromSerializedBlobTxNetworkWrapper(serialized, {common})
FromSerializedBlobTxNetworkWrapper(serialized, hfs, hf, es) ==
    IF serialized.type # BlobEIP4844
    THEN Rejected("Invalid serialized tx input: not an EIP-4844 transaction")
    ELSE IF serialized.values # 4
    THEN Rejected("Expected 4 values in the deserialized network transaction")
    ELSE LET decodedTx == FromValuesArray(ValuesOf(serialized.length, serialized.txData),
                                          hfs, hf, es)
             validated == ValidateBlobTransactionNetworkWrapper(
                              decodedTx.tx.versionedHashes, serialized.blobs,
                              serialized.commitments, serialized.kzgProofs,
                              serialized.verdict,
                              ParamByEIP("sharding", "blobCommitmentVersionKzg", 4844))
         IN  IF decodedTx.error # "none" THEN decodedTx
             ELSE IF decodedTx.tx.to = Undef
             THEN Rejected("BlobEIP4844Transaction can not be send without a valid to")
             ELSE IF validated # "none" THEN Rejected(validated)
             ELSE decodedTx

\* no wrapper came with the transaction
NoWrapper == Wrapper(0, 0, 0, NoTx, 0, <<>>, 0, "throws")

InitBlobTx ==
    /\ schedule = MainnetLike
    /\ hardfork \in {"london", "cancun"}
    /\ eips = <<>>
    /\ InitQueryTables
    /\ InitMachine
    /\ forkHashes = EmptyMap
    /\ copied = NoCopy
    /\ pending = NoPending
    /\ pendingBlock = NoPendingBlock
    /\ answer = [op |-> "blobTx", via |-> "none", txData |-> NoTx,
                 wrapper |-> NoWrapper, result |-> Rejected("none"),
                 serialized |-> <<>>, message |-> <<>>,
                 input |-> "none", decoded |-> Rejected("none")]

\* BlobEIP4844Transaction.fromTxData(txData, {common})
FromTxData(txData) ==
    /\ answer.op = "blobTx"
    /\ answer.via = "none"
    /\ answer' = [answer EXCEPT
                     !.via = "fromTxData",
                     !.txData = txData,
                     !.result = BlobEIP4844Transaction(txData, schedule, hardfork, eips)]
    /\ UNCHANGED <<commonVars, tableVars, machineVars, forkHashes, copied, pending, pendingBlock>>

\* BlobEIP4844Transaction.fromValuesArray(values, {common})
AskFromValuesArray(length, txData) ==
    /\ answer.op = "blobTx"
    /\ answer.via = "none"
    /\ answer' = [answer EXCEPT
                     !.via = "fromValuesArray",
                     !.txData = txData,
                     !.result = FromValuesArray(ValuesOf(length, txData),
                                                schedule, hardfork, eips)]
    /\ UNCHANGED <<commonVars, tableVars, machineVars, forkHashes, copied, pending, pendingBlock>>

\* BlobEIP4844Transaction.fromSerializedBlobTxNetworkWrapper(serialized, {common})
AskFromNetworkWrapper(serialized) ==
    /\ answer.op = "blobTx"
    /\ answer.via = "none"
    /\ answer' = [answer EXCEPT
                     !.via = "fromSerializedBlobTxNetworkWrapper",
                     !.txData = serialized.txData,
                     !.wrapper = serialized,
                     !.result = FromSerializedBlobTxNetworkWrapper(
                                    serialized, schedule, hardfork, eips)]
    /\ UNCHANGED <<commonVars, tableVars, machineVars, forkHashes, copied, pending, pendingBlock>>

\* tx.serialize() and tx.getMessageToSign() on the transaction constructed
SerializeTx ==
    /\ answer.op = "blobTx"
    /\ answer.via = "fromTxData"
    /\ answer.result.error = "none"
    /\ answer.serialized = <<>>
    /\ answer' = [answer EXCEPT
                     !.serialized = Serialize(answer.result.tx),
                     !.message = GetMessageToSign(answer.result.tx)]
    /\ UNCHANGED <<commonVars, tableVars, machineVars, forkHashes, copied, pending, pendingBlock>>

\* the bytes that reach fromSerializedTx: those of serialize(), those with
\* the type byte of another transaction, those of a string in place of a list
SerializedInputs == {"serialized", "other type", "no list"}

SerializedInput(input, serialized) ==
    IF input = "serialized" THEN serialized
    ELSE IF input = "other type" THEN <<2>> \o Tail(serialized)
    ELSE <<BlobEIP4844>> \o RlpEncode(B(<<1>>))

\* BlobEIP4844Transaction.fromSerializedTx(serialized, {common})
AskFromSerializedTx(input) ==
    /\ answer.op = "blobTx"
    /\ answer.serialized # <<>>
    /\ answer.input = "none"
    /\ answer' = [answer EXCEPT
                     !.input = input,
                     !.decoded = FromSerializedTx(SerializedInput(input, answer.serialized),
                                                  schedule, hardfork, eips)]
    /\ UNCHANGED <<commonVars, tableVars, machineVars, forkHashes, copied, pending, pendingBlock>>

\* the transactions with a signature: the nonces around the one-byte limits
\* of the codec, the y-parities and the values of r and s
Nonces == {0, 1, 127, 128, 256}

SignatureValues == {Undef, 0, 300}

SignedTxDatas ==
    { TxData(nonce, Contract, <<VersionedHash(32, 1)>>, v, r, s) :
          nonce \in Nonces, v \in {Undef, 0, 1, 2}, r \in SignatureValues,
          s \in SignatureValues }

\* the commitments that come with n blobs: those of the declared hashes,
\* one of them replaced, one too few, one too many
CommitmentLists(n) ==
    { [i \in 1..k |-> 1] : k \in {m \in {n - 1, n, n + 1} : m >= 0} }
        \cup { [i \in 1..n |-> IF i = j THEN 2 ELSE 1] : j \in 1..n }

\* the wrappers that reach the node: well-formed but for one fault at most in
\* the type, the number of values, the counts and the answer of the library
Wrappers(txData) ==
    LET n == Len(txData.versionedHashes)
        good == Wrapper(BlobEIP4844, 4, 14, txData, n, [i \in 1..n |-> 1], n, "valid")
    IN  { [good EXCEPT !.type = type] : type \in {2, BlobEIP4844} }
            \cup { [good EXCEPT !.values = values] : values \in {3, 4} }
            \cup { [good EXCEPT !.length = length] : length \in {11, 12, 14} }
            \cup { [good EXCEPT !.blobs = blobs] : blobs \in {n, n + 1} }
            \cup { [good EXCEPT !.commitments = commitments] :
                        commitments \in CommitmentLists(n) }
            \cup { [good EXCEPT !.kzgProofs = kzgProofs, !.verdict = verdict] :
                        kzgProofs \in {n, n + 1}, verdict \in KzgVerdicts }
            \cup { [good EXCEPT !.blobs = n + 1, !.commitments = [i \in 1..(n + 1) |-> 1],
                                !.kzgProofs = kzgProofs] : kzgProofs \in {n, n + 1} }

NextBlobTx ==
    \/ \E to \in Tos, versionedHashes \in HashLists :
           FromTxData(BlobTxData(to, versionedHashes))
    \/ \E txData \in SignedTxDatas : FromTxData(txData)
    \/ SerializeTx
    \/ \E input \in SerializedInputs : AskFromSerializedTx(input)
    \/ \E length \in {11, 12, 14}, to \in Tos, versionedHashes \in HashLists :
           AskFromValuesArray(length, BlobTxData(to, versionedHashes))
    \/ \E to \in Tos, versionedHashes \in HashLists :
           \E serialized \in Wrappers(BlobTxData(to, versionedHashes)) :
               AskFromNetworkWrapper(serialized)

SpecBlobTx == InitBlobTx /\ [][NextBlobTx]_vars

----------------------------------------------------------------------------
(* Claims on the assembly of a block *)

\* the pool {A nonce 0 at price 1, A nonce 1 at price 2, A nonce 2 at price 3,
\* B nonce 0 at price 2.5}, prices doubled
TxA01 == TxsOf("A", <<Priced(Plain(25, "transfer"), 2)>>, 0)[1]
TxA02 == TxsOf("A", <<Priced(Plain(25, "transfer"), 4)>>, 1)[1]
TxA03 == TxsOf("A", <<Priced(Plain(25, "transfer"), 6)>>, 2)[1]
TxB01 == TxsOf("B", <<Priced(Plain(25, "transfer"), 5)>>, 0)[1]

OrderedPool == [s \in Senders |-> IF s = "A" THEN <<TxA01, TxA02, TxA03>> ELSE <<TxB01>>]

\* C19: in an assembled block the transactions of a sender are in increasing
\* nonce order, every included transaction had the highest effective tip
\* among the head transactions of the senders when it was taken, and the
\* pool {A0 at 1, A1 at 2, A2 at 3, B0 at 2.5} gives [B0, A0, A1, A2]
AssemblyOrdering ==
    LET txs == pending.transactions
    IN  /\ \A i, j \in DOMAIN txs :
              (i < j /\ txs[i].from = txs[j].from) => txs[i].nonce < txs[j].nonce
        /\ \A k \in DOMAIN pending.popped :
              pending.popped[k].fate = "included" =>
                  \A tip \in pending.popped[k].tips :
                      tip <= EffectiveTip(pending.popped[k].tx)
        /\ (pending.status = "built" /\ pending.pool = OrderedPool /\ pending.gasLimit = 4700)
              => txs = <<TxB01, TxA01, TxA02, TxA03>>

\* the block of the pool of the claim has been built with its four
\* transactions
AssemblyOrderingWitness ==
    /\ pending.status = "built"
    /\ pending.pool = OrderedPool
    /\ Len(pending.transactions) = 4

\* C20: a transaction whose gas limit exceeds the gas remaining is skipped and
\* not included, no transaction is taken once the block is full, and a built
\* block uses no more gas than its gas limit and has one receipt for each of
\* its transactions
AssemblyGasLimit ==
    /\ \A k \in DOMAIN pending.popped :
          LET seen == pending.popped[k]
          IN  /\ seen.tx.gasLimit > seen.gasRemaining =>
                    /\ seen.fate = "skipped"
                    /\ seen.tx \notin Range(pending.transactions)
              /\ seen.gasRemaining >= MinTxGas
    /\ pending.status \in {"built", "invalid"} =>
          /\ pending.status = "built"
          /\ pending.gasUsed <= pending.gasLimit
          /\ Len(pending.receipts) = Len(pending.transactions)

\* a block was built that is full, after a transaction was skipped for its
\* gas limit
AssemblyGasLimitWitness ==
    /\ pending.status = "built"
    /\ pending.gasRemaining < MinTxGas
    /\ Len(pending.transactions) >= 1
    /\ \E k \in DOMAIN pending.popped : pending.popped[k].fate = "skipped"

\* the parts of the sidecar of the transactions txs, from the i-th on
RECURSIVE SidecarOf(_, _, _)
SidecarOf(txs, part, i) ==
    IF i > Len(txs) THEN <<>>
    ELSE PartsOf(txs[i], part) \o SidecarOf(txs, part, i + 1)

\* three transactions of A with three blobs each
ThreeBlobTxs == TxsOf("A", [i \in 1..3 |-> Priced(Blob(3, TRUE), 4)], 0)

\* C21: the blobs of the blob transactions of a block are at most
\* LIMIT_BLOBS_PER_BLOCK, a blob transaction that would exceed it is not
\* included, the bundle holds the blobs, commitments and proofs of the included
\* blob transactions, in equal numbers, and of three 3-blob transactions the
\* first two are included, with a bundle of 6 blobs, 6 commitments, 6 proofs
BlobBundleCap ==
    LET txs == pending.transactions
        bundle == pending.blobsBundle
    IN  /\ Len(SidecarOf(txs, "blob", 1)) <= LIMIT_BLOBS_PER_BLOCK
        /\ \A k \in DOMAIN pending.popped :
              LET seen == pending.popped[k]
              IN  seen.tx.blobs > seen.blobsRemaining =>
                      seen.fate = "skipped" /\ seen.tx \notin Range(txs)
        /\ bundle.blobs = SidecarOf(txs, "blob", 1)
        /\ bundle.commitments = SidecarOf(txs, "commitment", 1)
        /\ bundle.proofs = SidecarOf(txs, "proof", 1)
        /\ Len(bundle.blobs) = Len(bundle.commitments)
        /\ Len(bundle.blobs) = Len(bundle.proofs)
        /\ (pending.status = "built" /\ pending.pool = PoolOf(ThreeBlobTxs, <<>>)) =>
              /\ txs = SubSeq(ThreeBlobTxs, 1, 2)
              /\ Len(bundle.blobs) = 6
              /\ Len(bundle.commitments) = 6
              /\ Len(bundle.proofs) = 6

\* the block of the three 3-blob transactions has been built: two of them
\* are in it and the third was skipped for its blobs
BlobBundleCapWitness ==
    /\ pending.status = "built"
    /\ pending.pool = PoolOf(ThreeBlobTxs, <<>>)
    /\ Len(pending.transactions) = 2
    /\ pending.popped[3].verdict = "blobs"

\* C22: a built block has no nonce gap: a transaction is included only after
\* all pool transactions of its sender with a lower nonce, and once a
\* transaction of a sender was skipped no transaction of that sender with a
\* higher nonce is included
NoNonceGap ==
    LET txs == pending.transactions
    IN  /\ \A i \in DOMAIN txs :
              \A t \in TxsIn(pending.pool) :
                  (t.from = txs[i].from /\ t.nonce < txs[i].nonce) =>
                      \E j \in 1..(i - 1) : txs[j] = t
        /\ \A k \in DOMAIN pending.popped :
              pending.popped[k].fate = "skipped" =>
                  \A i \in DOMAIN txs :
                      txs[i].from = pending.popped[k].tx.from =>
                          txs[i].nonce < pending.popped[k].tx.nonce

\* a block was built after a transaction of A was skipped, with a
\* transaction of A before it in the block and one after it in the pool
NoNonceGapWitness ==
    /\ pending.status = "built"
    /\ \E k \in DOMAIN pending.popped :
          /\ pending.popped[k].fate = "skipped"
          /\ pending.popped[k].tx.from = "A"
          /\ pending.popped[k].tx.nonce = 1
          /\ Len(pending.pool["A"]) = 3
          /\ pending.head["A"] = 4
    /\ \E i \in DOMAIN pending.transactions : pending.transactions[i].from = "A"

\* C23: a transaction on another hardfork than the block is kept out of the
\* block for its hardfork only when it is incompatible with the rules of the
\* block, it is then in the pool after the build, and a transaction on
\* another hardfork that can be executed is included
MismatchingHardfork ==
    \A k \in DOMAIN pending.popped :
        LET seen == pending.popped[k]
        IN  /\ seen.verdict = "hardfork" =>
                  /\ seen.tx.mismatch = "incompatible"
                  /\ seen.tx \notin Range(pending.transactions)
                  /\ seen.tx \in pending.inPool
            /\ seen.tx.mismatch = "executable" =>
                  /\ seen.verdict \in {"ok", "nonce"}
                  /\ seen.verdict = "ok" => seen.tx \in Range(pending.transactions)

\* a block was built with a transaction on another hardfork in it, and
\* without a second one that is incompatible
MismatchingHardforkWitness ==
    /\ pending.status = "built"
    /\ \E k \in DOMAIN pending.popped :
          /\ pending.popped[k].tx.mismatch = "executable"
          /\ pending.popped[k].fate = "included"
    /\ \E k \in DOMAIN pending.popped : pending.popped[k].verdict = "hardfork"

\* the execution of the popped transaction ended in an error: its nonce or
\* the balance of its sender was wrong, or its code ran into INVALID
EndedInError(seen) ==
    \/ seen.verdict \in {"nonce", "funds"}
    \/ seen.verdict = "ok" /\ seen.tx.data = "invalid"

\* C24: a popped transaction whose execution ends in an error (out of gas,
\* invalid opcode, nonce mismatch, insufficient funds) is not included,
\* has no receipt and is dropped from the pool
ExecutionErrorsDropped ==
    /\ Len(pending.receipts) = Len(pending.transactions)
    /\ \A k \in DOMAIN pending.popped :
          EndedInError(pending.popped[k]) =>
              /\ pending.popped[k].tx \notin Range(pending.transactions)
              /\ pending.popped[k].tx \notin pending.inPool

\* C24, amended: a popped transaction that cannot be executed (nonce
\* mismatch, insufficient funds) is not included, has no receipt and is
\* dropped from the pool; a transaction whose code fails (invalid opcode) is
\* included, with a receipt of status 0 for the gas it had
InvalidTxsDropped ==
    /\ Len(pending.receipts) = Len(pending.transactions)
    /\ \A k \in DOMAIN pending.popped :
          pending.popped[k].verdict \in {"nonce", "funds"} =>
              /\ pending.popped[k].tx \notin Range(pending.transactions)
              /\ pending.popped[k].tx \notin pending.inPool
    /\ \A k \in DOMAIN pending.popped :
          (pending.popped[k].verdict = "ok" /\ pending.popped[k].tx.data = "invalid") =>
              \E i \in DOMAIN pending.transactions :
                  /\ pending.transactions[i] = pending.popped[k].tx
                  /\ pending.receipts[i] = [gasUsed |-> pending.popped[k].tx.gasLimit,
                                            status |-> 0]

\* a block was built with a transaction that ran into INVALID in it, and a
\* transaction of a sender without funds was dropped
InvalidTxsDroppedWitness ==
    /\ pending.status = "built"
    /\ \E k \in DOMAIN pending.popped : pending.popped[k].verdict = "funds"
    /\ \E i \in DOMAIN pending.transactions : pending.transactions[i].data = "invalid"

\* C25: once the chain-updated signal has arrived, no further transaction is
\* added to the block under assembly, the assembly is given up, and no
\* block of it is put to the chain
CancellationStops ==
    [][pending.signal =>
          /\ pending'.transactions = pending.transactions
          /\ pending'.receipts = pending.receipts
          /\ pending'.status \in {"interrupted", "stopped"}
          /\ pending'.put = 0]_vars

\* an assembly was interrupted after its first transaction while there was
\* gas left and a transaction ready in the pool
CancellationStopsWitness ==
    /\ pending.status = "interrupted"
    /\ pending.signal
    /\ Len(pending.transactions) = 1
    /\ LoopRuns(pending)
    /\ pending.put = 0

-----------------------------------------------------------------------------
(* Claims on the pending payloads *)

\* C26: start registers one payload under the id it returns and leaves the
\* other payloads alone; stop(id) removes the payload of id and nothing
\* else, so that a further stop(id), or a stop of an unknown id, changes
\* nothing; a payload that was stopped or pruned is never present again
PayloadLifecycle ==
    [][LET before == pendingBlock.pendingPayloads
           after == pendingBlock'.pendingPayloads
           called == pendingBlock'.last
       IN  /\ called.call = "start" =>
                 /\ called.id \in DOMAIN after
                 /\ DOMAIN after = DOMAIN before \cup {called.id}
                 /\ \A k \in DOMAIN before : after[k] = before[k]
           /\ called.call = "stop" =>
                 /\ called.id \notin DOMAIN after
                 /\ DOMAIN after = DOMAIN before \ {called.id}
                 /\ \A k \in DOMAIN after : after[k] = before[k]
           /\ \A k \in DOMAIN after :
                 pendingBlock'.serials[k] \notin pendingBlock'.removed]_vars

\* a payload was started and stopped, and stop was called on its id once
\* more while another payload was pending
PayloadLifecycleWitness ==
    /\ pendingBlock.made
    /\ pendingBlock.last.call = "stop"
    /\ ~pendingBlock.last.known
    /\ pendingBlock.last.id \in DOMAIN pendingBlock.serials
    /\ pendingBlock.serials[pendingBlock.last.id] \in pendingBlock.removed
    /\ pendingBlock.pendingPayloads # EmptyMap

\* sequence s is the beginning of sequence t
IsPrefix(s, t) == Len(s) <= Len(t) /\ \A i \in DOMAIN s : s[i] = t[i]

\* C27: the block of build(id) begins with the transactions the payload had
\* at start and after every earlier build, so it never has fewer, and it
\* has the transactions that the pool received since and that can be
\* included: no transaction of the pool is left that has the next nonce of
\* its sender and fits into the gas that remains
BuildImproves ==
    pendingBlock.made =>
    \A id \in DOMAIN pendingBlock.pendingPayloads :
        LET p == pendingBlock.pendingPayloads[id]
            b == pendingBlock.builds[id]
        IN  /\ p.transactions = b[Len(b)]
            /\ \A k \in 1..(Len(b) - 1) : IsPrefix(b[k], b[k + 1])
            /\ (pendingBlock.last.call = "build" /\ pendingBlock.last.id = id) =>
                  \A tx \in TxsIn(pendingBlock.txPool) \ Range(p.transactions) :
                      \/ p.gasRemaining < MinTxGas
                      \/ tx.gasLimit > p.gasRemaining
                      \/ tx.nonce # p.nonce[tx.from]

\* build was called twice on a payload that had a transaction at start; the
\* first build added a transaction that reached the pool after start
BuildImprovesWitness ==
    /\ pendingBlock.made
    /\ pendingBlock.last.call = "build"
    /\ pendingBlock.last.known
    /\ LET b == pendingBlock.builds[pendingBlock.last.id]
       IN  /\ Len(b) = 3
           /\ Len(b[1]) = 1
           /\ Len(b[2]) = 2
           /\ b[3] = b[2]

-----------------------------------------------------------------------------
(* Claims on the base fee *)

\* the gas target of a header of the London schedule
GasTargetOf(h) == h.gasLimit \div GasConfig(schedule, "london", "elasticityMultiplier")

MaxChangeDenominator == GasConfig(schedule, "london", "baseFeeMaxChangeDenominator")

\* C28: with gasUsed at the target the next base fee is the parent's base
\* fee; with gasUsed at twice the target it is the parent's base fee times
\* (1 + 1/baseFeeMaxChangeDenominator), for every parent base fee
NextBaseFeeExact ==
    (answer.op = "header" /\ answer.called /\ ~answer.result.thrown) =>
        LET h == answer.header
            next == answer.result.nextBaseFee
        IN  /\ h.gasUsed = GasTargetOf(h) => next = h.baseFeePerGas
            /\ h.gasUsed = 2 * GasTargetOf(h) =>
                  next * MaxChangeDenominator = h.baseFeePerGas * (MaxChangeDenominator + 1)

\* C28, amended: with gasUsed at the target the next base fee is the
\* parent's base fee; with gasUsed at twice the target it is the parent's
\* base fee plus the integer part of baseFee / baseFeeMaxChangeDenominator,
\* and plus 1 where that is 0; it is the parent's base fee times
\* (1 + 1/baseFeeMaxChangeDenominator) where the base fee is a positive
\* multiple of the denominator
NextBaseFeeRounded ==
    (answer.op = "header" /\ answer.called /\ ~answer.result.thrown) =>
        LET h == answer.header
            next == answer.result.nextBaseFee
            rise == h.baseFeePerGas \div MaxChangeDenominator
        IN  /\ h.gasUsed = GasTargetOf(h) => next = h.baseFeePerGas
            /\ h.gasUsed = 2 * GasTargetOf(h) =>
                  /\ next = h.baseFeePerGas + (IF rise > 1 THEN rise ELSE 1)
                  /\ (h.baseFeePerGas > 0 /\ h.baseFeePerGas % MaxChangeDenominator = 0) =>
                        next * MaxChangeDenominator
                            = h.baseFeePerGas * (MaxChangeDenominator + 1)

\* the next base fee of a header that used twice its target at a base fee
\* of 3 is 4
NextBaseFeeRoundedWitness ==
    /\ answer.op = "header"
    /\ answer.called
    /\ answer.header.gasUsed = 2 * GasTargetOf(answer.header)
    /\ answer.header.baseFeePerGas = 3
    /\ answer.result = Computed(4)

\* C29: on a chain with London after block 0 the London block has the
\* initial base fee and twice the gas limit of its parent, every later
\* block has the base fee that calcNextBaseFee() of its parent gives, and a
\* header at the London block with another base fee is rejected
LondonChain ==
    (answer.op = "chain" /\ HardforkBlock(schedule, "london") \notin {Null, 0}) =>
        LET london == HardforkBlock(schedule, "london")
            initialBaseFee == ParamByEIP("gasConfig", "initialBaseFee", 1559)
        IN  /\ \A i \in 2..Len(answer.chain) :
                  LET h == answer.chain[i]
                      parent == answer.chain[i - 1]
                  IN  /\ h.number = parent.number + 1
                      /\ h.number = london =>
                            /\ h.baseFeePerGas = initialBaseFee
                            /\ h.gasLimit = 2 * parent.gasLimit
                      /\ h.number > london =>
                            /\ ~CalcNextBaseFee(parent, schedule).thrown
                            /\ h.baseFeePerGas = CalcNextBaseFee(parent, schedule).nextBaseFee
            /\ (/\ answer.last.call = "header"
                /\ answer.last.number = london
                /\ answer.last.baseFeePerGas \notin {Undef, initialBaseFee}) =>
                  answer.last.error # "none"

\* a chain was assembled over the London block at 3 to block 4, whose parent
\* was full, and a header for block 3 with a base fee of 7 was rejected
\* before
LondonChainWitness ==
    /\ answer.op = "chain"
    /\ HardforkBlock(schedule, "london") = 3
    /\ Len(answer.chain) = 5
    /\ answer.chain[4].baseFeePerGas = InitialBaseFee
    /\ answer.chain[4].gasUsed = answer.chain[4].gasLimit
    /\ answer.chain[5].baseFeePerGas = InitialBaseFee + InitialBaseFee \div 8

\* a header at the London block with a base fee of 7 was rejected by a
\* Common on london
LondonHeaderRejected ==
    /\ answer.op = "chain"
    /\ answer.last.call = "header"
    /\ answer.last.number = HardforkBlock(schedule, "london")
    /\ answer.last.number # 0
    /\ answer.last.baseFeePerGas = 7
    /\ answer.last.error = "Initial EIP1559 block does not have initial base fee"

-----------------------------------------------------------------------------
(* Claims on blob transactions *)

\* C30: every blob transaction that was constructed has its to set, has
\* between 1 and LIMIT_BLOBS_PER_TX versioned hashes, and each of them is
\* 32 bytes long and begins with the KZG version byte
BlobTxWellFormed ==
    (answer.op = "blobTx" /\ answer.via # "none" /\ answer.result.error = "none") =>
        LET tx == answer.result.tx
        IN  /\ tx.to # Undef
            /\ Len(tx.versionedHashes) \in 1..LIMIT_BLOBS_PER_TX
            /\ \A i \in DOMAIN tx.versionedHashes :
                  /\ tx.versionedHashes[i].length = 32
                  /\ tx.versionedHashes[i].first
                         = ParamByEIP("sharding", "blobCommitmentVersionKzg", 4844)

\* the conditions on a network wrapper that the specification lists: the
\* numbers of blobs, commitments, proofs and versioned hashes are equal and
\* not zero, the KZG library accepts the proofs, every commitment gives the
\* versioned hash declared at its index, and to is set
WrapperConditions(serialized) ==
    LET versionedHashes == serialized.txData.versionedHashes
        version == ParamByEIP("sharding", "blobCommitmentVersionKzg", 4844)
    IN  /\ serialized.blobs = Len(versionedHashes)
        /\ Len(serialized.commitments) = Len(versionedHashes)
        /\ serialized.kzgProofs = Len(versionedHashes)
        /\ Len(versionedHashes) # 0
        /\ serialized.verdict = "valid"
        /\ \A i \in DOMAIN versionedHashes :
              ComputeVersionedHash(serialized.commitments[i], version) = versionedHashes[i]
        /\ serialized.txData.to # Undef

\* the serialized bytes have the form of a network wrapper: the type byte of
\* a blob transaction, a list of four values, a transaction of 11 or 14 values
IsNetworkWrapper(serialized) ==
    /\ serialized.type = BlobEIP4844
    /\ serialized.values = 4
    /\ serialized.length \in {11, 14}

\* C31 as stated: decoding a network wrapper gives a transaction if and only
\* if the counts are equal and not zero, the KZG verification succeeds, the
\* commitments give the declared hashes and to is set; otherwise it throws
WrapperAcceptedIff ==
    (/\ answer.op = "blobTx"
     /\ answer.via = "fromSerializedBlobTxNetworkWrapper"
     /\ IsNetworkWrapper(answer.wrapper)) =>
        /\ (answer.result.error = "none") <=> WrapperConditions(answer.wrapper)
        /\ answer.result.error # "none" => answer.result.tx = NoTx

\* C31 amended: decoding a network wrapper gives a transaction if and only
\* if, besides the listed conditions, the wrapper has the type byte of a
\* blob transaction and four values, the transaction has 11 or 14 values and
\* at most LIMIT_BLOBS_PER_TX versioned hashes, and EIP-4844 is active on
\* the Common; the transaction returned has the decoded fields, and when
\* decoding throws no transaction is returned
WrapperAcceptedIffConstructible ==
    (answer.op = "blobTx" /\ answer.via = "fromSerializedBlobTxNetworkWrapper") =>
        /\ (answer.result.error = "none") <=>
               /\ WrapperConditions(answer.wrapper)
               /\ IsNetworkWrapper(answer.wrapper)
               /\ Len(answer.wrapper.txData.versionedHashes) <= LIMIT_BLOBS_PER_TX
               /\ IsActivatedEIP(schedule, hardfork, eips, 4844)
        /\ answer.result.error = "none" =>
               /\ answer.result.tx.to = answer.wrapper.txData.to
               /\ answer.result.tx.versionedHashes = answer.wrapper.txData.versionedHashes
        /\ answer.result.error # "none" => answer.result.tx = NoTx

\* a wrapper of two blobs was decoded to a transaction
WrapperAcceptedWitness ==
    /\ answer.op = "blobTx"
    /\ answer.via = "fromSerializedBlobTxNetworkWrapper"
    /\ answer.result.error = "none"
    /\ Len(answer.result.tx.versionedHashes) = 2
    /\ answer.wrapper.kzgProofs = 2

\* C32: a transaction that was constructed, signed or not, is decoded from
\* its serialization by fromSerializedTx to a transaction whose raw() has
\* the same values field by field and whose serialization is the same
\* bytes; the serialization is the type byte followed by the encoding of
\* the 14 fields, the message to sign the type byte followed by the
\* encoding of the 11 fields before v, r and s
CodecRoundTrip ==
    (answer.op = "blobTx" /\ answer.serialized # <<>>) =>
        /\ answer.input = "serialized" =>
               /\ answer.decoded.error = "none"
               /\ \A i \in 1..14 : Raw(answer.decoded.tx)[i] = Raw(answer.result.tx)[i]
               /\ Serialize(answer.decoded.tx) = answer.serialized
        /\ answer.serialized[1] = BlobEIP4844
        /\ RlpDecode(Tail(answer.serialized)) = L(Raw(answer.result.tx))
        /\ answer.message[1] = BlobEIP4844
        /\ RlpDecode(Tail(answer.message)).k = "l"
        /\ RlpDecode(Tail(answer.message)).v = SubSeq(RlpDecode(Tail(answer.serialized)).v, 1, 11)

\* a signed transaction of a nonce of two bytes, and an unsigned one whose
\* hashes take the long form of a list, were serialized and decoded
CodecRoundTripWitness ==
    /\ answer.op = "blobTx"
    /\ answer.input = "serialized"
    /\ answer.decoded.error = "none"
    /\ \/ /\ answer.result.tx.nonce = 256
          /\ answer.result.tx.v = 1
          /\ answer.result.tx.r = 300
          /\ answer.result.tx.s = 300
       \/ /\ answer.result.tx.v = Undef
          /\ answer.decoded.tx.v = 0
          /\ Len(answer.result.tx.versionedHashes) = LIMIT_BLOBS_PER_TX

====
